---------------------------- MODULE Spec2Model ----------------------------
(***************************************************************************)
(* A model of WAVM's per-function LLVM IR emitter                          *)
(* (Source/Runtime/LLVMEmitIR.cpp, EmitFunctionContext) and of the         *)
(* operator loop that feeds it.                                            *)
(*                                                                         *)
(* The emitter state is the operand stack, the control stack, the          *)
(* branch-target stack, the try and catch stacks and the part of the LLVM  *)
(* function the control core builds: basic blocks with their terminators   *)
(* and the phi nodes with their incoming lists.  SSA values are terms.     *)
(* Every handler is a function from emitter state to emitter state,        *)
(* written statement by statement after the C++; an action reads the       *)
(* variables into a record, applies the handler and writes the result.     *)
(***************************************************************************)
EXTENDS Integers, Sequences, FiniteSets, TLC

VARIABLES
    functionType,            \* EmitFunctionContext::functionType
    stack,                   \* EmitFunctionContext::stack
    controlStack,            \* EmitFunctionContext::controlStack
    branchTargetStack,       \* EmitFunctionContext::branchTargetStack
    tryStack,                \* EmitFunctionContext::tryStack
    catchStack,              \* EmitFunctionContext::catchStack
    phis,                    \* the phi nodes created so far
    terms,                   \* the terminator of every basic block created so far
    insertBlock,             \* irBuilder.GetInsertBlock()
    numInsts,                \* number of IR instructions created so far
    calls,                   \* the calls created so far, with their unwind destination
    assertFailed,            \* some wavmAssert / errorUnless condition was false
    unreachableControlDepth, \* UnreachableOpVisitor::unreachableControlDepth
    skipped,                 \* kinds of the structures opened in unreachable code
    numOps,                  \* opIndex of the operator loop
    lastOp,                  \* the operator decoded last and who handled it
    script,                  \* a fixed function body, or << >> for any valid body
    access,                  \* a memory access: index, static offset, byte offset
    run,                     \* the code emitted for one operator, run on operands
    moduleContext,           \* EmitModuleContext, and the emissions that share it
    sexp,                    \* a string given to SExp::parse, and what came of it
    funclet                  \* the emitter of the funclet-based build, given the same body

vars == << functionType, stack, controlStack, branchTargetStack, tryStack,
           catchStack, phis, terms, insertBlock, numInsts, calls, assertFailed,
           unreachableControlDepth, skipped, numOps, lastOp, script,
           access, run, moduleContext, sexp, funclet >>

-----------------------------------------------------------------------------
(* Bounds of the model. *)

\* Longest generated function body, in operators.
MaxOps == 4
\* Deepest nesting of control structures below the function frame.
MaxControlDepth == 2
\* Deepest operand stack of a generated body.
MaxStack == 2

-----------------------------------------------------------------------------
(* Sequences. *)

Last(s) == s[Len(s)]

Front(s) == SubSeq(s, 1, Len(s) - 1)

Take(s, n) == SubSeq(s, 1, n)

TopN(s, n) == SubSeq(s, Len(s) - n + 1, Len(s))

Range(s) == { s[i] : i \in DOMAIN s }

Max(a, b) == IF a >= b THEN a ELSE b

\* Number of positions of s that hold x.
Count(s, x) == Cardinality({ i \in DOMAIN s : s[i] = x })

RECURSIVE SumSeq(_)
SumSeq(s) == IF s = << >> THEN 0 ELSE s[1] + SumSeq(Tail(s))

-----------------------------------------------------------------------------
(* Types and SSA values. *)

\* The value types of the model: one scalar and the vector type.
ValueTypes == { "i32", "v128" }

\* asLLVMType(ValueType): v128 is the canonical vector type <2 x i64>.
asLLVMType(vt) == IF vt = "v128" THEN "i64x2" ELSE "i32"

\* llvm::Type::isVectorTy
isVectorTy(lt) == lt \in { "i64x2", "i8x16" }

\* The WebAssembly value type an LLVM value of type lt stands for.
ValueTypeOf(lt) == IF isVectorTy(lt) THEN "v128" ELSE "i32"

\* An SSA value: the instruction that made it, its LLVM type, a literal
\* (or the id of the phi, or the index of the local or argument slot) and
\* its operands.
Value(op, lt, n, a) == [ op |-> op, lt |-> lt, n |-> n, a |-> a ]

\* emitLiteral
emitLiteral(n) == Value("const", "i32", n, << >>)

\* typedZeroConstants[type]
typedZeroConstants(vt) == Value("zero", asLLVMType(vt), 0, << >>)

TypesOf(values) == [ i \in DOMAIN values |-> ValueTypeOf(values[i].lt) ]

\* The value of phi node p.
PhiValue(ps, p) == Value("phi", ps[p].lt, p, << >>)

-----------------------------------------------------------------------------
(* The emitter state as one record, and the IR builder. *)

NoBlock == 0

NoTerm == [ kind |-> "none", cond |-> << >>, targets |-> << >> ]

\* llvm::BasicBlock::Create: the new block is the last of e.terms.
CreateBlock(e) == [ e EXCEPT !.terms = Append(@, NoTerm) ]

NewBlock(e) == Len(e.terms) + 1

\* A terminator created at the insertion point.
CreateTerm(e, kind, cond, targets) ==
    [ e EXCEPT !.terms[e.insertBlock] =
                   [ kind |-> kind, cond |-> cond, targets |-> targets ],
               !.numInsts = @ + 1 ]

CreateBr(e, target) == CreateTerm(e, "br", << >>, << target >>)

CreateCondBr(e, cond, trueBlock, falseBlock) ==
    CreateTerm(e, "condbr", << cond >>, << trueBlock, falseBlock >>)

CreateUnreachable(e) == CreateTerm(e, "unreachable", << >>, << >>)

SetInsertPoint(e, block) == [ e EXCEPT !.insertBlock = block ]

\* Instructions that are neither phis nor terminators: only counted.
Emit(e, n) == [ e EXCEPT !.numInsts = @ + n ]

\* wavmAssert / errorUnless
wavmAssert(e, cond) == [ e EXCEPT !.assertFailed = @ \/ ~cond ]

-----------------------------------------------------------------------------
(* Operand stack manipulation. *)

OuterStackSize(e) ==
    IF Len(e.controlStack) > 0 THEN Last(e.controlStack).outerStackSize ELSE 0

\* stack.size() - outerStackSize >= num in unsigned arithmetic: the
\* difference of a smaller and a larger size wraps to a huge number.
HasOperands(e, num) ==
    \/ Len(e.stack) < OuterStackSize(e)
    \/ Len(e.stack) - OuterStackSize(e) >= num

pop(e) == [ wavmAssert(e, HasOperands(e, 1)) EXCEPT !.stack = Front(@) ]

RECURSIVE popTimes(_, _)
popTimes(e, n) == IF n = 0 THEN e ELSE popTimes(pop(e), n - 1)

popMultiple(e, num) ==
    [ wavmAssert(e, HasOperands(e, num)) EXCEPT
          !.stack = Take(@, Len(@) - num) ]

\* stack[stack.size() - offset - 1], counting from 0.
getValueFromTop(e, offset) == e.stack[Len(e.stack) - offset]

push(e, value) == [ e EXCEPT !.stack = Append(@, value) ]

pushMultiple(e, values) == [ e EXCEPT !.stack = @ \o values ]

-----------------------------------------------------------------------------
(* Phi nodes. *)

\* The phis createPHIs is about to create for a type tuple.
NewPHIs(e, types) == [ i \in DOMAIN types |-> Len(e.phis) + i ]

createPHIs(e, basicBlock, types) ==
    [ e EXCEPT !.phis = @ \o [ i \in DOMAIN types |->
                                  [ block    |-> basicBlock,
                                    lt       |-> asLLVMType(types[i]),
                                    incoming |-> << >>,
                                    erased   |-> FALSE ] ],
               !.numInsts = @ + Len(types) ]

addIncoming(e, phi, value, from) ==
    [ e EXCEPT !.phis[phi].incoming = Append(@, [ val |-> value, from |-> from ]) ]

\* Bitcasts a vector value to the canonical vector type; IRBuilder folds a
\* cast to the type the value already has.
coerceToCanonicalType(value) ==
    IF isVectorTy(value.lt) /\ value.lt # "i64x2"
    THEN Value("bitcast", "i64x2", 0, << value >>)
    ELSE value

\* phiList[i]->addIncoming(f(values[i]), insert block), for every i.
RECURSIVE addIncomings(_, _, _, _, _)
addIncomings(e, phiList, values, coerce, from) ==
    IF phiList = << >> \/ values = << >>
    THEN e
    ELSE LET v  == IF coerce THEN coerceToCanonicalType(values[1]) ELSE values[1]
             e1 == addIncoming(Emit(e, IF v = values[1] THEN 0 ELSE 1),
                               phiList[1], v, from)
         IN  addIncomings(e1, Tail(phiList), Tail(values), coerce, from)

-----------------------------------------------------------------------------
(* Control structure operators. *)

pushControlStack(e, type, resultTypes, endBlock, endPHIs, elseBlock, elseArgs) ==
    LET e1 == wavmAssert(e, Len(e.controlStack) = 0
                            \/ Last(e.controlStack).isReachable)
    IN  [ e1 EXCEPT !.controlStack = Append(@,
              [ type        |-> type,
                endBlock    |-> endBlock,
                endPHIs     |-> endPHIs,
                elseBlock   |-> elseBlock,
                elseArgs    |-> elseArgs,
                resultTypes |-> resultTypes,
                outerStackSize |-> Len(e.stack),
                outerBranchTargetStackSize |-> Len(e.branchTargetStack),
                isReachable |-> TRUE ]) ]

pushBranchTarget(e, branchArgumentType, branchTargetBlock, branchTargetPHIs) ==
    [ e EXCEPT !.branchTargetStack = Append(@,
          [ params |-> branchArgumentType,
            block  |-> branchTargetBlock,
            phis   |-> branchTargetPHIs ]) ]

\* branchToEndOfControlContext that leaves the results on the stack.
branchToEndKeepingResults(e) ==
    LET currentContext == Last(e.controlStack)
        results == TopN(e.stack, Len(currentContext.resultTypes))
    IN  IF currentContext.isReachable
        THEN CreateBr(addIncomings(e, currentContext.endPHIs, results, TRUE,
                                   e.insertBlock),
                      currentContext.endBlock)
        ELSE e

branchToEndOfControlContext(e) ==
    LET currentContext == Last(e.controlStack)
        n  == Len(currentContext.resultTypes)
    IN  IF currentContext.isReachable
        THEN LET results == TopN(e.stack, n)
                 e1 == popTimes(e, n)
                 e2 == addIncomings(e1, currentContext.endPHIs, results, TRUE,
                                    e1.insertBlock)
                 e3 == CreateBr(e2, currentContext.endBlock)
             IN  wavmAssert(e3, Len(e3.stack) = currentContext.outerStackSize)
        ELSE wavmAssert(e, Len(e.stack) = currentContext.outerStackSize)

block(e, blockType) ==
    LET endBlock  == NewBlock(e)
        endPHIs   == NewPHIs(e, blockType.results)
        e1 == createPHIs(CreateBlock(e), endBlock, blockType.results)
        blockArgs == TopN(e1.stack, Len(blockType.params))
        e2 == popMultiple(e1, Len(blockType.params))
        e3 == pushControlStack(e2, "block", blockType.results, endBlock, endPHIs,
                               NoBlock, << >>)
        e4 == pushBranchTarget(e3, blockType.results, endBlock, endPHIs)
    IN  pushMultiple(e4, blockArgs)

\* A loop whose label is its end, as the label of a block is.
loopBranchingToEnd(e, blockType) ==
    LET loopEntryBlock == e.insertBlock
        loopBodyBlock  == NewBlock(e)
        endBlock       == NewBlock(e) + 1
        parameterPHIs  == NewPHIs(e, blockType.params)
        e1 == createPHIs(CreateBlock(CreateBlock(e)), loopBodyBlock, blockType.params)
        endPHIs == NewPHIs(e1, blockType.results)
        e2 == createPHIs(e1, endBlock, blockType.results)
        e3 == SetInsertPoint(CreateBr(e2, loopBodyBlock), loopBodyBlock)
        args == TopN(e3.stack, Len(blockType.params))
        e4 == popTimes(e3, Len(blockType.params))
        \* The initial values arrive from loopEntryBlock, as they are.
        e5 == addIncomings(e4, parameterPHIs, args, FALSE, loopEntryBlock)
        e7 == pushControlStack(e5, "loop", blockType.results, endBlock, endPHIs,
                               NoBlock, << >>)
        e8 == pushBranchTarget(e7, blockType.results, endBlock, endPHIs)
    IN  pushMultiple(e8, [ i \in DOMAIN parameterPHIs |->
                              PhiValue(e8.phis, parameterPHIs[i]) ])

loop(e, blockType) ==
    LET loopEntryBlock == e.insertBlock
        loopBodyBlock  == NewBlock(e)
        endBlock       == NewBlock(e) + 1
        parameterPHIs  == NewPHIs(e, blockType.params)
        e1 == createPHIs(CreateBlock(CreateBlock(e)), loopBodyBlock, blockType.params)
        endPHIs == NewPHIs(e1, blockType.results)
        e2 == createPHIs(e1, endBlock, blockType.results)
        e3 == SetInsertPoint(CreateBr(e2, loopBodyBlock), loopBodyBlock)
        args == TopN(e3.stack, Len(blockType.params))
        e4 == popTimes(e3, Len(blockType.params))
        \* The initial values arrive from loopEntryBlock, as they are.
        e5 == addIncomings(e4, parameterPHIs, args, FALSE, loopEntryBlock)
        e7 == pushControlStack(e5, "loop", blockType.results, endBlock, endPHIs,
                               NoBlock, << >>)
        e8 == pushBranchTarget(e7, blockType.params, loopBodyBlock, parameterPHIs)
    IN  pushMultiple(e8, [ i \in DOMAIN parameterPHIs |->
                              PhiValue(e8.phis, parameterPHIs[i]) ])

if_(e, blockType) ==
    LET thenBlock == NewBlock(e)
        elseBlock == NewBlock(e) + 1
        endBlock  == NewBlock(e) + 2
        endPHIs   == NewPHIs(e, blockType.results)
        e1 == createPHIs(CreateBlock(CreateBlock(CreateBlock(e))), endBlock,
                         blockType.results)
        condition == Last(e1.stack)
        e2 == pop(e1)
        \* coerceI32ToBool is an icmp ne with zero.
        e3 == CreateCondBr(Emit(e2, 1), Value("ne0", "i1", 0, << condition >>),
                           thenBlock, elseBlock)
        e4 == wavmAssert(e3, Len(e3.stack) >= Len(blockType.params))
        args == TopN(e4.stack, Len(blockType.params))
        e5 == SetInsertPoint(popMultiple(e4, Len(blockType.params)), thenBlock)
        e6 == pushControlStack(e5, "ifThen", blockType.results, endBlock, endPHIs,
                               elseBlock, args)
        e7 == pushBranchTarget(e6, blockType.results, endBlock, endPHIs)
    IN  pushMultiple(e7, args)

\* An `else` that leaves the frame as unreachable as the then-arm ended.
else_KeepingReachability(e) ==
    LET e1 == wavmAssert(e, Len(e.controlStack) > 0)
        currentContext == Last(e1.controlStack)
        e2 == branchToEndOfControlContext(e1)
        e3 == wavmAssert(wavmAssert(e2, currentContext.elseBlock # NoBlock),
                         currentContext.type = "ifThen")
        e4 == SetInsertPoint(e3, currentContext.elseBlock)
        e5 == pushMultiple(e4, currentContext.elseArgs)
    IN  [ e5 EXCEPT !.controlStack[Len(e5.controlStack)] =
              [ @ EXCEPT !.type = "ifElse",
                         !.elseBlock = NoBlock ] ]

else_(e) ==
    LET e1 == wavmAssert(e, Len(e.controlStack) > 0)
        currentContext == Last(e1.controlStack)
        e2 == branchToEndOfControlContext(e1)
        e3 == wavmAssert(wavmAssert(e2, currentContext.elseBlock # NoBlock),
                         currentContext.type = "ifThen")
        e4 == SetInsertPoint(e3, currentContext.elseBlock)
        e5 == pushMultiple(e4, currentContext.elseArgs)
    IN  [ e5 EXCEPT !.controlStack[Len(e5.controlStack)] =
              [ @ EXCEPT !.type = "ifElse", !.isReachable = TRUE,
                         !.elseBlock = NoBlock ] ]

\* An `end` that leaves the phis without incoming value in their block.
eraseNoPHIs(e, endPHIs) == e

\* The phis of endPHIs that got no incoming value are erased.
eraseUnusedPHIs(e, endPHIs) ==
    [ e EXCEPT !.phis = [ p \in DOMAIN @ |->
          IF p \in Range(endPHIs) /\ Len(@[p].incoming) = 0
          THEN [ @[p] EXCEPT !.erased = TRUE ]
          ELSE @[p] ] ]

\* An endTry that leaves the try's entry on the catch stack.
endTryKeepingCatchContext(e) ==
    LET e1 == wavmAssert(e, Len(e.tryStack) > 0)
    IN  [ e1 EXCEPT !.tryStack = Front(@) ]

\* Table-based unwinding: the catch stack entry of a try.
endTry(e) ==
    LET e1 == wavmAssert(e, Len(e.tryStack) > 0)
    IN  [ e1 EXCEPT !.tryStack = Front(@), !.catchStack = Front(@) ]

\* An unwind destination that is the outermost try's.
getOutermostUnwindToBlock(e) ==
    IF Len(e.tryStack) > 0 THEN e.tryStack[1].unwindToBlock ELSE NoBlock

\* tryStack.back().unwindToBlock, or no block with an empty try stack.
getInnermostUnwindToBlock(e) ==
    IF Len(e.tryStack) > 0 THEN Last(e.tryStack).unwindToBlock ELSE NoBlock

\* The call or invoke instruction: an invoke when there is a block to unwind
\* to, a call without unwind destination otherwise.
emitCallOrInvoke(e, callee, args, unwindToBlock) ==
    [ Emit(e, 1) EXCEPT !.calls = Append(@,
          [ callee        |-> callee,
            block         |-> e.insertBlock,
            arguments     |-> args,
            unwindToBlock |-> unwindToBlock ]) ]

\* A call of a runtime intrinsic.
emitRuntimeIntrinsic(e, intrinsicName, args) ==
    emitCallOrInvoke(e, intrinsicName, args, getInnermostUnwindToBlock(e))

\* emitThrow: a call of the throwException intrinsic.
emitThrow(e, exceptionTypeInstanceI64, argumentsPointerI64, isUserException) ==
    emitRuntimeIntrinsic(e, "throwException",
        << exceptionTypeInstanceI64, argumentsPointerI64,
           emitLiteral(IF isUserException THEN 1 ELSE 0) >>)

\* An endCatch that emits the rethrow where the catch clause ended.
endCatchInCatchClause(e) ==
    LET e1 == wavmAssert(e, Len(e.catchStack) > 0)
        catchContext == Last(e1.catchStack)
        e3 == CreateUnreachable(
                  emitThrow(Emit(e1, 3),
                            Value("load", "i64", 0, << catchContext.exceptionPointer >>),
                            Value("ptrtoint", "i64", 0, << catchContext.exceptionPointer >>),
                            FALSE))
    IN  [ e3 EXCEPT !.catchStack = Front(@) ]

endCatch(e) ==
    LET e1 == wavmAssert(e, Len(e.catchStack) > 0)
        catchContext == Last(e1.catchStack)
        e2 == SetInsertPoint(e1, catchContext.nextHandlerBlock)
        \* load of the type instance, GEP and ptrtoint of the arguments
        e3 == CreateUnreachable(
                  emitThrow(Emit(e2, 3),
                            Value("load", "i64", 0, << catchContext.exceptionPointer >>),
                            Value("ptrtoint", "i64", 0, << catchContext.exceptionPointer >>),
                            FALSE))
    IN  [ e3 EXCEPT !.catchStack = Front(@) ]

\* endCatch where _WIN64 is defined: no rethrow is emitted.
endCatch_win64(e) ==
    [ wavmAssert(e, Len(e.catchStack) > 0) EXCEPT !.catchStack = Front(@) ]

\* endMissingElse that adds no incoming value for the else edge.
endMissingElseWithoutArguments(e, currentContext) ==
    CreateBr(SetInsertPoint(e, currentContext.elseBlock), currentContext.endBlock)

\* endMissingElse that hands the arguments over from the block the then-arm
\* ended in.
endMissingElseFromThenArm(e, currentContext) ==
    LET e1 == CreateBr(SetInsertPoint(e, currentContext.elseBlock),
                       currentContext.endBlock)
    IN  addIncomings(e1, currentContext.endPHIs, currentContext.elseArgs, FALSE,
                     e.insertBlock)

\* The part of `end` for an if without else: the else block branches to the
\* end block, and the if's arguments arrive there as they were captured.
endMissingElse(e, currentContext) ==
    LET e1 == CreateBr(SetInsertPoint(e, currentContext.elseBlock),
                       currentContext.endBlock)
        e2 == wavmAssert(e1, Len(currentContext.elseArgs)
                             = Len(currentContext.endPHIs))
    IN  addIncomings(e2, currentContext.endPHIs, currentContext.elseArgs, FALSE,
                     currentContext.elseBlock)

\* An `end` that goes on emitting where it is instead of in the end block.
endLeavingInsertPoint(e) ==
    LET e1 == wavmAssert(e, Len(e.controlStack) > 0)
        currentContext == Last(e1.controlStack)
        e2 == branchToEndOfControlContext(e1)
        e3 == IF currentContext.elseBlock # NoBlock
              THEN endMissingElse(e2, currentContext)
              ELSE e2
        e4 == IF currentContext.type = "try" THEN endTry(e3)
              ELSE IF currentContext.type = "catch" THEN endCatch(e3)
              ELSE e3
        e5 == e4
        e6 == wavmAssert(e5, Len(currentContext.endPHIs)
                             = Len(currentContext.resultTypes))
        results == [ i \in DOMAIN currentContext.endPHIs |->
                       IF Len(e6.phis[currentContext.endPHIs[i]].incoming) > 0
                       THEN PhiValue(e6.phis, currentContext.endPHIs[i])
                       ELSE typedZeroConstants(currentContext.resultTypes[i]) ]
        e7 == pushMultiple(eraseUnusedPHIs(e6, currentContext.endPHIs), results)
        e8 == wavmAssert(e7, currentContext.outerBranchTargetStackSize
                             <= Len(e7.branchTargetStack))
    IN  [ e8 EXCEPT
            !.branchTargetStack = Take(@, currentContext.outerBranchTargetStackSize),
            !.controlStack = Front(@) ]

\* `end`, with the endCatch of the build: the one without rethrow where
\* _WIN64 is defined.
endOfBuild(e, win64) ==
    LET e1 == wavmAssert(e, Len(e.controlStack) > 0)
        currentContext == Last(e1.controlStack)
        e2 == branchToEndOfControlContext(e1)
        e3 == IF currentContext.elseBlock # NoBlock
              THEN endMissingElse(e2, currentContext)
              ELSE e2
        e4 == IF currentContext.type = "try" THEN endTry(e3)
              ELSE IF currentContext.type = "catch" THEN (IF win64 THEN endCatch_win64(e3) ELSE endCatch(e3))
              ELSE e3
        e5 == SetInsertPoint(e4, currentContext.endBlock)
        e6 == wavmAssert(e5, Len(currentContext.endPHIs)
                             = Len(currentContext.resultTypes))
        results == [ i \in DOMAIN currentContext.endPHIs |->
                       IF Len(e6.phis[currentContext.endPHIs[i]].incoming) > 0
                       THEN PhiValue(e6.phis, currentContext.endPHIs[i])
                       ELSE typedZeroConstants(currentContext.resultTypes[i]) ]
        e7 == pushMultiple(eraseUnusedPHIs(e6, currentContext.endPHIs), results)
        e8 == wavmAssert(e7, currentContext.outerBranchTargetStackSize
                             <= Len(e7.branchTargetStack))
    IN  [ e8 EXCEPT
            !.branchTargetStack = Take(@, currentContext.outerBranchTargetStackSize),
            !.controlStack = Front(@) ]

end(e) == endOfBuild(e, FALSE)

end_win64(e) == endOfBuild(e, TRUE)

-----------------------------------------------------------------------------
(* Control flow operators. *)

\* A lookup that counts the depth from the bottom of the stack.
getBranchTargetFromBottom(e, depth) == e.branchTargetStack[depth + 1]

\* The index, in branchTargetStack, of the target `depth` frames out.
BranchTargetIndex(e, depth) == Len(e.branchTargetStack) - depth

getBranchTargetByDepth(e, depth) == e.branchTargetStack[BranchTargetIndex(e, depth)]

\* enterUnreachable that clears the whole operand stack.
enterUnreachableClearingStack(e) ==
    [ e EXCEPT !.stack = << >>,
               !.controlStack[Len(e.controlStack)].isReachable = FALSE ]

\* enterUnreachable that marks the function's frame instead of the innermost.
enterUnreachableOfFunction(e) ==
    LET e1 == wavmAssert(e, Last(e.controlStack).outerStackSize <= Len(e.stack))
    IN  [ e1 EXCEPT !.stack = Take(@, Last(e.controlStack).outerStackSize),
                    !.controlStack[1].isReachable = FALSE ]

enterUnreachable(e) ==
    LET e1 == wavmAssert(e, Last(e.controlStack).outerStackSize <= Len(e.stack))
    IN  [ e1 EXCEPT !.stack = Take(@, Last(e.controlStack).outerStackSize),
                    !.controlStack[Len(e.controlStack)].isReachable = FALSE ]

\* br_if that pops the branch arguments, as br does.
br_ifPoppingArguments(e, targetDepth) ==
    LET condition == Last(e.stack)
        e1 == pop(e)
        target == getBranchTargetByDepth(e1, targetDepth)
        args == TopN(e1.stack, Len(target.params))
        e2 == addIncomings(popTimes(e1, Len(target.params)), target.phis, args,
                           TRUE, e1.insertBlock)
        falseBlock == NewBlock(e2)
        e3 == CreateCondBr(Emit(CreateBlock(e2), 1),
                           Value("ne0", "i1", 0, << condition >>),
                           target.block, falseBlock)
    IN  SetInsertPoint(e3, falseBlock)

br_if(e, targetDepth) ==
    LET condition == Last(e.stack)
        e1 == pop(e)
        e2 == wavmAssert(e1, targetDepth < Len(e1.branchTargetStack))
        target == getBranchTargetByDepth(e2, targetDepth)
        e3 == wavmAssert(e2, Len(target.params) = Len(target.phis))
        \* The arguments are read from the stack, not popped.
        args == [ argIndex \in DOMAIN target.params |->
                    getValueFromTop(e3, Len(target.params) - argIndex) ]
        e4 == addIncomings(e3, target.phis, args, TRUE, e3.insertBlock)
        falseBlock == NewBlock(e4)
        e5 == CreateCondBr(Emit(CreateBlock(e4), 1),
                           Value("ne0", "i1", 0, << condition >>),
                           target.block, falseBlock)
    IN  SetInsertPoint(e5, falseBlock)

\* br that leaves the operands of the frame on the stack.
brLeavingOperands(e, targetDepth) ==
    LET target == getBranchTargetByDepth(e, targetDepth)
        args == TopN(e.stack, Len(target.params))
        e1 == addIncomings(popTimes(e, Len(target.params)), target.phis, args,
                           TRUE, e.insertBlock)
        e2 == CreateBr(e1, target.block)
    IN  [ e2 EXCEPT !.controlStack[Len(e.controlStack)].isReachable = FALSE ]

br(e, targetDepth) ==
    LET e1 == wavmAssert(e, targetDepth < Len(e.branchTargetStack))
        target == getBranchTargetByDepth(e1, targetDepth)
        e2 == wavmAssert(e1, Len(target.params) = Len(target.phis))
        args == TopN(e2.stack, Len(target.params))
        e3 == popTimes(e2, Len(target.params))
        e4 == addIncomings(e3, target.phis, args, TRUE, e3.insertBlock)
    IN  enterUnreachable(CreateBr(e4, target.block))

\* addTableTargets that adds incoming values once per target block.
RECURSIVE addTableTargetsOncePerBlock(_, _, _)
addTableTargetsOncePerBlock(e, targetDepths, args) ==
    IF targetDepths = << >>
    THEN e
    ELSE LET target == getBranchTargetByDepth(e, targetDepths[1])
             seen == target.block \in Range(e.terms[e.insertBlock].targets)
             e1 == [ e EXCEPT !.terms[e.insertBlock].targets =
                                  Append(@, target.block) ]
             e2 == IF seen THEN e1
                   ELSE addIncomings(e1, target.phis, args, TRUE, e1.insertBlock)
         IN  addTableTargetsOncePerBlock(e2, Tail(targetDepths), args)

\* The loop of br_table over the listed target depths.
RECURSIVE addTableTargets(_, _, _)
addTableTargets(e, targetDepths, args) ==
    IF targetDepths = << >>
    THEN e
    ELSE LET e1 == wavmAssert(e, targetDepths[1] < Len(e.branchTargetStack))
             target == getBranchTargetByDepth(e1, targetDepths[1])
             \* llvmSwitch->addCase
             e2 == [ e1 EXCEPT !.terms[e1.insertBlock].targets =
                                   Append(@, target.block) ]
             e3 == wavmAssert(e2, Len(target.phis) = Len(args))
             e4 == addIncomings(e3, target.phis, args, TRUE, e3.insertBlock)
         IN  addTableTargets(e4, Tail(targetDepths), args)

br_table(e, defaultTargetDepth, targetDepths) ==
    LET index == Last(e.stack)
        e1 == pop(e)
        e2 == wavmAssert(e1, defaultTargetDepth < Len(e1.branchTargetStack))
        defaultTarget == getBranchTargetByDepth(e2, defaultTargetDepth)
        numArgs == Len(defaultTarget.params)
        args == TopN(e2.stack, numArgs)
        e3 == popMultiple(e2, numArgs)
        e4 == addIncomings(e3, defaultTarget.phis, args, TRUE, e3.insertBlock)
        e5 == CreateTerm(e4, "switch", << index >>, << defaultTarget.block >>)
    IN  enterUnreachable(addTableTargets(e5, targetDepths, args))

\* A return that leaves the code after it reachable.
return_StayingReachable(e) ==
    LET n == Len(e.functionType.results)
        args == TopN(e.stack, n)
        e1 == popTimes(e, n)
        e2 == addIncomings(e1, e1.controlStack[1].endPHIs, args, TRUE,
                           e1.insertBlock)
    IN  CreateBr(e2, e2.controlStack[1].endBlock)

return_(e) ==
    LET n == Len(e.functionType.results)
        args == TopN(e.stack, n)
        e1 == popTimes(e, n)
        e2 == addIncomings(e1, e1.controlStack[1].endPHIs, args, TRUE,
                           e1.insertBlock)
    IN  enterUnreachable(CreateBr(e2, e2.controlStack[1].endBlock))

unreachable(e) ==
    enterUnreachable(CreateUnreachable(emitRuntimeIntrinsic(e, "unreachableTrap", << >>)))

\* module.functions and module.types: the first function is imported, the
\* second is defined in the module.
moduleFunctions ==
    << [ params |-> << >>, results |-> << >> ],
       [ params |-> << "i32" >>, results |-> << "i32" >> ] >>

\* The values a call returns, one per result of the callee.
callResults(e, calleeType) ==
    [ i \in 1 .. Len(calleeType.results) |->
          Value("callResult", asLLVMType(calleeType.results[i]), Len(e.calls), << >>) ]

call(e, functionIndex) ==
    LET e1 == wavmAssert(e, functionIndex < Len(moduleFunctions))
        calleeType == moduleFunctions[functionIndex + 1]
        numArguments == Len(calleeType.params)
        llvmArgs == TopN(e1.stack, numArguments)
        e2 == popMultiple(e1, numArguments)
        e3 == emitCallOrInvoke(e2, Value("function", "ptr", functionIndex, << >>),
                               llvmArgs, getInnermostUnwindToBlock(e2))
    IN  pushMultiple(e3, callResults(e2, calleeType))

call_indirect(e, typeIndex) ==
    LET e1 == wavmAssert(e, typeIndex < Len(moduleFunctions))
        calleeType == moduleFunctions[typeIndex + 1]
        tableElementIndex == Last(e1.stack)
        e2 == pop(e1)
        numArguments == Len(calleeType.params)
        llvmArgs == TopN(e2.stack, numArguments)
        e3 == popMultiple(e2, numArguments)
        \* zext, pointer cast of the table base, GEP and load of the type, icmp
        e4 == Emit(e3, 6)
        \* emitConditionalTrapIntrinsic: the trap block calls the intrinsic
        trueBlock == NewBlock(e4)
        endBlock == NewBlock(e4) + 1
        e5 == CreateCondBr(CreateBlock(CreateBlock(e4)),
                           Value("icmp ne", "i1", typeIndex, << tableElementIndex >>),
                           trueBlock, endBlock)
        e6 == CreateUnreachable(
                  emitRuntimeIntrinsic(SetInsertPoint(e5, trueBlock),
                                       "indirectCallSignatureMismatch",
                                       << tableElementIndex,
                                          Value("ptrtoint", "i64", typeIndex, << >>) >>))
        \* GEP and load of the function pointer
        e7 == Emit(SetInsertPoint(e6, endBlock), 2)
        e8 == emitCallOrInvoke(e7, Value("tableFunction", "ptr", 0,
                                         << tableElementIndex >>),
                               llvmArgs, getInnermostUnwindToBlock(e7))
    IN  pushMultiple(e8, callResults(e7, calleeType))

-----------------------------------------------------------------------------
(* Polymorphic, local, constant and numeric operators. *)

\* stack.pop_back(), without an assertion.
drop(e) == [ e EXCEPT !.stack = Front(@) ]

i32_const(e, value) == push(e, emitLiteral(value))

\* i32.eqz: an icmp eq with zero and a zext.
i32_eqz(e) ==
    LET operand == Last(e.stack)
    IN  push(Emit(pop(e), 2), Value("eqz", "i32", 0, << operand >>))

\* i8x16.splat: a trunc and a vector splat; the result is a <16 x i8>.
i8x16_splat(e) ==
    LET scalar == Last(e.stack)
    IN  push(Emit(pop(e), 2), Value("splat", "i8x16", 0, << scalar >>))

\* The locals of the model are the function's parameters.
get_local(e, variableIndex) ==
    LET e1 == wavmAssert(e, variableIndex < Len(e.functionType.params))
    IN  push(Emit(e1, 1),
             Value("local", asLLVMType(e.functionType.params[variableIndex + 1]),
                   variableIndex, << >>))

\* A bitcast of the top of the stack and a store; nothing is popped.
tee_local(e, variableIndex) ==
    Emit(wavmAssert(e, variableIndex < Len(e.functionType.params)), 2)

-----------------------------------------------------------------------------
(* Exception handling operators, for the table-based unwinder. *)

\* moduleInstance->exceptionTypeInstances: the parameters of each exception type.
exceptionTypeInstances ==
    << << >>, << "i32" >>, << "i32", "i32" >>, << "i32", "v128" >> >>

try_(e, blockType) ==
    LET landingPadBlock == NewBlock(e)
        originalInsertBlock == e.insertBlock
        \* landingpad, extractvalue, call of __cxa_begin_catch, two loads and a GEP
        e1 == Emit(SetInsertPoint(CreateBlock(e), landingPadBlock), 6)
        exceptionPointer == Value("exceptionPointer", "ptr", landingPadBlock, << >>)
        e2 == SetInsertPoint(e1, originalInsertBlock)
        e3 == [ e2 EXCEPT
                  !.tryStack = Append(@, [ unwindToBlock |-> landingPadBlock ]),
                  !.catchStack = Append(@,
                      [ nextHandlerBlock |-> landingPadBlock,
                        exceptionTypeInstance |->
                            Value("exceptionTypeInstance", "i64", landingPadBlock, << >>),
                        exceptionPointer |-> exceptionPointer ]) ]
        endBlock == NewBlock(e3)
        endPHIs  == NewPHIs(e3, blockType.results)
        e4 == createPHIs(CreateBlock(e3), endBlock, blockType.results)
        tryArgs == TopN(e4.stack, Len(blockType.params))
        e5 == popMultiple(e4, Len(blockType.params))
        e6 == pushControlStack(e5, "try", blockType.results, endBlock, endPHIs,
                               NoBlock, << >>)
        e7 == pushBranchTarget(e6, blockType.results, endBlock, endPHIs)
    IN  pushMultiple(e7, tryArgs)

\* The part catch_ and catch_all share: leave the try body or the previous
\* catch clause, and test the exception in the next-handler block.
beginCatch(e, isExceptionType) ==
    LET e1 == wavmAssert(wavmAssert(e, Len(e.controlStack) > 0),
                         Len(e.catchStack) > 0)
        controlContext == Last(e1.controlStack)
        catchContext   == Last(e1.catchStack)
        e2 == wavmAssert(e1, controlContext.type \in { "try", "catch" })
        e3 == IF controlContext.type = "try"
              THEN [ wavmAssert(e2, Len(e2.tryStack) > 0) EXCEPT !.tryStack = Front(@) ]
              ELSE e2
        e4 == branchToEndOfControlContext(e3)
        e5 == SetInsertPoint(e4, catchContext.nextHandlerBlock)
        catchBlock     == NewBlock(e5)
        unhandledBlock == NewBlock(e5) + 1
        e6 == CreateCondBr(Emit(CreateBlock(CreateBlock(e5)), 1),
                           isExceptionType,
                           catchBlock, unhandledBlock)
        e7 == [ e6 EXCEPT !.catchStack[Len(e6.catchStack)].nextHandlerBlock =
                              unhandledBlock ]
    IN  SetInsertPoint(e7, catchBlock)

\* becomeCatch that also removes the branch target of the try.
becomeCatchWithoutBranchTarget(e) ==
    [ e EXCEPT !.controlStack[Len(e.controlStack)] =
                   [ @ EXCEPT !.type = "catch", !.isReachable = TRUE ],
               !.branchTargetStack = Front(@) ]

\* Change the top of the control stack to a catch clause.
becomeCatch(e) ==
    [ e EXCEPT !.controlStack[Len(e.controlStack)] =
          [ @ EXCEPT !.type = "catch", !.isReachable = TRUE ] ]

catch_(e, exceptionTypeIndex) ==
    LET \* icmp eq of the exception's type instance and the clause's
        isExceptionType ==
            Value("icmp eq", "i1", exceptionTypeIndex,
                  << Last(e.catchStack).exceptionTypeInstance >>)
        e1 == beginCatch(e, isExceptionType)
        e2 == wavmAssert(e1, exceptionTypeIndex < Len(exceptionTypeInstances))
        params == exceptionTypeInstances[exceptionTypeIndex + 1]
        n == Len(params)
        \* argumentIndex runs from the last parameter down to the first.
        arguments == [ k \in 1 .. n |->
                         Value("exceptionArgument", asLLVMType(params[n - k + 1]),
                               n - k, << >>) ]
    IN  becomeCatch(pushMultiple(Emit(e2, 2 * n), arguments))

catch_all(e) ==
    LET \* icmp ne of the loaded isUserException byte and 0
        isUserExceptionType ==
            Value("icmp ne", "i1", 0,
                  << Value("load isUserException", "i8", 0,
                           << Last(e.catchStack).exceptionPointer >>) >>)
    IN  becomeCatch(Emit(beginCatch(e, isUserExceptionType), 2))

\* The stores of throw_: argument argIndex is popped and stored into the
\* element numArgs - argIndex - 1 of the array (elements counted from 0).
RECURSIVE storeArguments(_, _, _, _)
storeArguments(e, memory, argIndex, numArgs) ==
    IF argIndex >= numArgs
    THEN [ e |-> e, memory |-> memory ]
    ELSE LET elementValue == Last(e.stack)
             \* a GEP, a pointer cast and a store
             e1 == Emit(pop(e), 3)
         IN  storeArguments(
                 e1,
                 [ memory EXCEPT ![(numArgs - argIndex - 1) + 1] = elementValue ],
                 argIndex + 1, numArgs)

\* The pointer to an array on the stack of the emitted function, with what
\* has been stored into its elements.
Alloca(memory) == Value("alloca", "i8*", 0, memory)

throw_(e, exceptionTypeIndex) ==
    LET params == exceptionTypeInstances[exceptionTypeIndex + 1]
        numArgs == Len(params)
        argBaseAddress == [ i \in 1 .. numArgs |-> Value("undef", "i8", 0, << >>) ]
        stored == storeArguments(Emit(e, 1), argBaseAddress, 0, numArgs)
        e1 == emitThrow(Emit(stored.e, 1),
                        Value("typeInstance", "i64", exceptionTypeIndex, << >>),
                        Value("ptrtoint", "i64", 0, << Alloca(stored.memory) >>),
                        TRUE)
    IN  enterUnreachable(CreateUnreachable(e1))

\* catchStack[catchStack.size() - imm.catchDepth - 1]; where the assertion
\* fails the index is outside the vector and nothing is modelled of the call.
rethrow(e, catchDepth) ==
    LET e1 == wavmAssert(e, catchDepth < Len(e.catchStack))
    IN  IF e1.assertFailed THEN e1
        ELSE LET catchContext == e1.catchStack[Len(e1.catchStack) - catchDepth]
                 \* load of the type instance, GEP and ptrtoint of the arguments
                 e2 == emitThrow(Emit(e1, 3),
                           Value("load", "i64", 0, << catchContext.exceptionPointer >>),
                           Value("ptrtoint", "i64", 0, << catchContext.exceptionPointer >>),
                           TRUE)
             IN  enterUnreachable(CreateUnreachable(e2))

-----------------------------------------------------------------------------
(* Exception handling operators where _WIN32 is defined: funclets.  The     *)
(* emitter state has two more fields: localEscapeBlock and the number of    *)
(* pendingLocalEscapes.                                                     *)

try_win32(e, blockType) ==
    LET catchSwitchBlock == NewBlock(e)
        originalInsertBlock == e.insertBlock
        \* the catchswitch ends its block; the handlers are added by the catches
        e1 == CreateTerm(SetInsertPoint(CreateBlock(e), catchSwitchBlock),
                         "catchswitch", << >>, << >>)
        e2 == SetInsertPoint(e1, originalInsertBlock)
        e3 == [ e2 EXCEPT
                  !.tryStack = Append(@, [ unwindToBlock |-> catchSwitchBlock ]),
                  !.catchStack = Append(@,
                      [ catchSwitchInst  |-> catchSwitchBlock,
                        exceptionPointer |-> Value("nullptr", "ptr", 0, << >>) ]) ]
        endBlock == NewBlock(e3)
        endPHIs  == NewPHIs(e3, blockType.results)
        e4 == createPHIs(CreateBlock(e3), endBlock, blockType.results)
        tryArgs == TopN(e4.stack, Len(blockType.params))
        e5 == popMultiple(e4, Len(blockType.params))
        e6 == pushControlStack(e5, "try", blockType.results, endBlock, endPHIs,
                               NoBlock, << >>)
        e7 == pushBranchTarget(e6, blockType.results, endBlock, endPHIs)
        e8 == pushMultiple(e7, tryArgs)
    \* the call of the module's dummy function, in the body of the try
    IN  emitCallOrInvoke(e8, "__try_prologue", << >>, getInnermostUnwindToBlock(e8))

\* What createSEHFilterFunction does to the function being emitted: the
\* alloca of the exception data pointer in the local-escape block, which the
\* first call creates.  The filter function itself is a function of its own.
exceptionDataAlloca(e) ==
    LET savedInsertBlock == e.insertBlock
        e1 == IF e.localEscapeBlock = NoBlock
              THEN [ CreateBlock(e) EXCEPT !.localEscapeBlock = NewBlock(e) ]
              ELSE e
        e2 == Emit(SetInsertPoint(e1, e1.localEscapeBlock), 1)
        e3 == [ e2 EXCEPT !.pendingLocalEscapes = @ + 1 ]
    IN  SetInsertPoint(e3, savedInsertBlock)

\* The part catch_ and catch_all share: leave the try body or the previous
\* catch clause, add a handler to the catchswitch and return from its
\* funclet to a new block.
beginCatch_win32(e) ==
    LET e1 == wavmAssert(wavmAssert(e, Len(e.controlStack) > 0),
                         Len(e.catchStack) > 0)
        controlContext == Last(e1.controlStack)
        catchContext   == Last(e1.catchStack)
        e2 == wavmAssert(e1, controlContext.type \in { "try", "catch" })
        e3 == IF controlContext.type = "try"
              THEN [ wavmAssert(e2, Len(e2.tryStack) > 0) EXCEPT !.tryStack = Front(@) ]
              ELSE e2
        e4 == branchToEndOfControlContext(e3)
        e5 == exceptionDataAlloca(e4)
        catchPadBlock == NewBlock(e5)
        \* addHandler, and the catchpad
        e6 == [ CreateBlock(e5) EXCEPT
                  !.terms[catchContext.catchSwitchInst].targets =
                      Append(@, catchPadBlock) ]
        e7 == Emit(SetInsertPoint(e6, catchPadBlock), 1)
        catchBlock == NewBlock(e7)
        e8 == CreateTerm(CreateBlock(e7), "catchret", << >>, << catchBlock >>)
        \* the load of the exception data pointer
        e9 == Emit(SetInsertPoint(e8, catchBlock), 1)
    IN  [ e9 EXCEPT !.catchStack[Len(e9.catchStack)].exceptionPointer =
                        Value("exceptionPointer", "ptr", catchBlock, << >>) ]

catch_win32(e, exceptionTypeIndex) ==
    LET e1 == beginCatch_win32(
                  wavmAssert(e, exceptionTypeIndex < Len(exceptionTypeInstances)))
        params == exceptionTypeInstances[exceptionTypeIndex + 1]
        n == Len(params)
        \* argumentIndex runs from 0 up: the type of parameter argumentIndex,
        \* the element n - argumentIndex - 1 of the arguments
        arguments == [ k \in 1 .. n |->
                         Value("exceptionArgument", asLLVMType(params[k]),
                               n - (k - 1) - 1, << >>) ]
    IN  becomeCatch(pushMultiple(Emit(e1, 2 * n), arguments))

catch_all_win32(e) == becomeCatch(beginCatch_win32(e))

-----------------------------------------------------------------------------
(* Memory addresses.                                                       *)
(* An integer of the emitted code is a sequence of 16-bit limbs, the least *)
(* significant first: an i32 has two limbs and an i64 four, so that the    *)
(* 64-bit sum keeps its width.                                             *)

Limb == 2 ^ 16

\* irBuilder.CreateZExt to a type of numLimbs limbs.
zext(value, numLimbs) ==
    [ i \in 1 .. numLimbs |-> IF i <= Len(value) THEN value[i] ELSE 0 ]

\* The carry into limb i of the sum of a and b.
RECURSIVE Carry(_, _, _)
Carry(a, b, i) ==
    IF i = 1 THEN 0 ELSE (a[i - 1] + b[i - 1] + Carry(a, b, i - 1)) \div Limb

\* irBuilder.CreateAdd of two integers of the same type: the sum wraps.
CreateAdd(a, b) == [ i \in DOMAIN a |-> (a[i] + b[i] + Carry(a, b, i)) % Limb ]

\* irBuilder.CreateSExt to a type of numLimbs limbs.
sext(value, numLimbs) ==
    [ i \in 1 .. numLimbs |->
        IF i <= Len(value) THEN value[i]
        ELSE IF Last(value) >= Limb \div 2 THEN Limb - 1 ELSE 0 ]

\* The byte offset with the index sign-extended, as the GEP would do to a
\* 32-bit index.
coerceByteIndexToPointerSignExtended(byteIndex, offset) ==
    LET sextIndex == sext(byteIndex, 4)
    IN  IF offset # << 0, 0 >>
        THEN CreateAdd(sextIndex, zext(offset, 4))
        ELSE sextIndex

\* The byte offset the GEP applies to the memory base pointer.
coerceByteIndexToPointer(byteIndex, offset) ==
    LET zextIndex == zext(byteIndex, 4)
    IN  IF offset # << 0, 0 >>
        THEN CreateAdd(zextIndex, zext(offset, 4))
        ELSE zextIndex

\* EMIT_LOAD_OP and EMIT_STORE_OP: what they do with the popped byte index
\* and the immediate offset.
i32_load(byteIndex, offset) ==
    [ op |-> "i32.load", index |-> byteIndex, offset |-> offset,
      pointer |-> coerceByteIndexToPointer(byteIndex, offset) ]

i32_store(byteIndex, offset) ==
    [ op |-> "i32.store", index |-> byteIndex, offset |-> offset,
      pointer |-> coerceByteIndexToPointer(byteIndex, offset) ]

-----------------------------------------------------------------------------
(* Integer operators.                                                      *)
(* The code emitted for one operator is run on the values of its operands: *)
(* an irBuilder.Create* call stands for what the instruction computes, an  *)
(* i1 is an integer of one limb, and a trap check either ends the run in   *)
(* the trap block or lets it continue in the skip block.                   *)

\* The number of limbs of an integer type.
NumLimbs(type) == IF type = "i64" THEN 4 ELSE 2

getTypeBitWidth(type) == 16 * NumLimbs(type)

\* emitLiteral of a small unsigned number, with the limbs of its C++ type.
emitLiteralOf(n, numLimbs) ==
    [ i \in 1 .. numLimbs |-> IF i = 1 THEN n % Limb
                              ELSE IF i = 2 THEN n \div Limb ELSE 0 ]

\* typedZeroConstants[type] of an integer type.
zeroConstant(type) == [ i \in 1 .. NumLimbs(type) |-> 0 ]

\* emitLiteral((U32)INT32_MIN) and emitLiteral((U64)INT64_MIN)
emitLiteralIntMin(type) ==
    [ i \in 1 .. NumLimbs(type) |-> IF i = NumLimbs(type) THEN Limb \div 2 ELSE 0 ]

\* emitLiteral((U32)-1) and emitLiteral((U64)-1)
emitLiteralMinusOne(type) == [ i \in 1 .. NumLimbs(type) |-> Limb - 1 ]

CreateICmpEQ(a, b) == << IF a = b THEN 1 ELSE 0 >>

CreateICmpNE(a, b) == << IF a # b THEN 1 ELSE 0 >>

RECURSIVE BitAnd(_, _, _)
BitAnd(x, y, numBits) ==
    IF numBits = 0 THEN 0
    ELSE (x % 2) * (y % 2) + 2 * BitAnd(x \div 2, y \div 2, numBits - 1)

\* irBuilder.CreateAnd
CreateAnd(a, b) == [ i \in DOMAIN a |-> BitAnd(a[i], b[i], 16) ]

\* irBuilder.CreateOr: a | b = a + b - (a & b), limb by limb.
CreateOr(a, b) == [ i \in DOMAIN a |-> a[i] + b[i] - BitAnd(a[i], b[i], 16) ]

\* The run has ended in a call of a trap intrinsic.
Trapped(intrinsicName) ==
    [ trap |-> intrinsicName, inst |-> "none", operands |-> << >>,
      defined |-> TRUE, result |-> << >> ]

\* The run has executed the instruction the operator is lowered to.
\* `defined` is whether LLVM defines the instruction for these operands.
Executed(inst, operands, defined, result) ==
    [ trap |-> "none", inst |-> inst, operands |-> operands,
      defined |-> defined, result |-> result ]

\* The conditional branch to the trap block, which calls the intrinsic and
\* is terminated by unreachable; `skip` is the run from the skip block on.
emitConditionalTrapIntrinsic(booleanCondition, intrinsicName, skip) ==
    IF booleanCondition = << 1 >> THEN Trapped(intrinsicName) ELSE skip

\* The check emitted before an atomic access: `address` is the value it is
\* called with, `skip` the run from the skip block on.
trapIfMisalignedAtomic(address, naturalAlignmentLog2, skip) ==
    IF naturalAlignmentLog2 > 0
    THEN emitConditionalTrapIntrinsic(
             CreateICmpNE(zeroConstant("i32"),
                          CreateAnd(address,
                                    emitLiteralOf(2 ^ naturalAlignmentLog2 - 1, 2))),
             "misalignedAtomicTrap", skip)
    ELSE skip

\* An atomic access, emitted and run: the check on the popped byte index,
\* then the pointer and the instruction on it, with the ordering it is given.
AtomicAccess(name, naturalAlignmentLog2, byteIndex, offset, pointer, inst) ==
    [ op |-> name, index |-> byteIndex, offset |-> offset, pointer |-> pointer,
      naturalAlignmentLog2 |-> naturalAlignmentLog2,
      ordering |-> "SequentiallyConsistent",
      run |-> trapIfMisalignedAtomic(byteIndex, naturalAlignmentLog2,
                                     Executed(inst, << pointer >>, TRUE, << >>)) ]

EMIT_ATOMIC_LOAD_OP(name, naturalAlignmentLog2, byteIndex, offset) ==
    AtomicAccess(name, naturalAlignmentLog2, byteIndex, offset,
                 coerceByteIndexToPointer(byteIndex, offset), "load atomic volatile")

EMIT_ATOMIC_STORE_OP(name, naturalAlignmentLog2, byteIndex, offset) ==
    AtomicAccess(name, naturalAlignmentLog2, byteIndex, offset,
                 coerceByteIndexToPointer(byteIndex, offset), "store atomic volatile")

EMIT_ATOMIC_CMPXCHG(name, naturalAlignmentLog2, byteIndex, offset) ==
    AtomicAccess(name, naturalAlignmentLog2, byteIndex, offset,
                 coerceByteIndexToPointer(byteIndex, offset), "cmpxchg volatile")

EMIT_ATOMIC_RMW(name, rmwOpId, naturalAlignmentLog2, byteIndex, offset) ==
    AtomicAccess(name, naturalAlignmentLog2, byteIndex, offset,
                 coerceByteIndexToPointer(byteIndex, offset),
                 << "atomicrmw volatile", rmwOpId >>)

i32_atomic_load(byteIndex, offset) ==
    EMIT_ATOMIC_LOAD_OP("i32.atomic.load", 2, byteIndex, offset)

i64_atomic_load(byteIndex, offset) ==
    EMIT_ATOMIC_LOAD_OP("i64.atomic.load", 3, byteIndex, offset)

i32_atomic_load8_u(byteIndex, offset) ==
    EMIT_ATOMIC_LOAD_OP("i32.atomic.load8_u", 0, byteIndex, offset)

i32_atomic_store16(byteIndex, offset) ==
    EMIT_ATOMIC_STORE_OP("i32.atomic.store16", 1, byteIndex, offset)

i32_atomic_rmw_cmpxchg(byteIndex, offset) ==
    EMIT_ATOMIC_CMPXCHG("i32.atomic.rmw.cmpxchg", 2, byteIndex, offset)

i32_atomic_rmw_add(byteIndex, offset) ==
    EMIT_ATOMIC_RMW("i32.atomic.rmw.add", "Add", 2, byteIndex, offset)

trapDivideByZero(type, divisor, skip) ==
    emitConditionalTrapIntrinsic(
        CreateICmpEQ(divisor, zeroConstant(type)),
        "divideByZeroOrIntegerOverflowTrap", skip)

\* A check of the divisor alone in the place of the check of div_s.
trapDivideByZeroIgnoringOverflow(type, left, right, skip) ==
    trapDivideByZero(type, right, skip)

trapDivideByZeroOrIntegerOverflow(type, left, right, skip) ==
    emitConditionalTrapIntrinsic(
        CreateOr(CreateAnd(CreateICmpEQ(left, emitLiteralIntMin(type)),
                           CreateICmpEQ(right, emitLiteralMinusOne(type))),
                 CreateICmpEQ(right, zeroConstant(type))),
        "divideByZeroOrIntegerOverflowTrap", skip)

\* Bit j of an integer, bit 0 being the least significant.
BitOf(v, j) == (v[j \div 16 + 1] \div (2 ^ (j % 16))) % 2

\* Two's complement negation.
Negated(a) ==
    CreateAdd([ i \in DOMAIN a |-> Limb - 1 - a[i] ], emitLiteralOf(1, Len(a)))

IsZero(a) == \A i \in DOMAIN a : a[i] = 0

\* The value of a as a signed integer is negative.
IsNegative(a) == Last(a) >= Limb \div 2

\* LLVM: sdiv by zero is undefined behaviour, and so is the overflow of the
\* quotient, which happens when the negative dividend is its own negation
\* and the divisor is the negation of 1.
SDivDefined(a, b) ==
    /\ ~IsZero(b)
    /\ ~(IsNegative(a) /\ Negated(a) = a /\ Negated(b) = emitLiteralOf(1, Len(b)))

\* LLVM: udiv and urem by zero are undefined behaviour.
UDivDefined(a, b) == ~IsZero(b)

CreateSDiv(left, right) ==
    Executed("sdiv", << left, right >>, SDivDefined(left, right), << >>)

CreateUDiv(left, right) ==
    Executed("udiv", << left, right >>, UDivDefined(left, right), << >>)

CreateURem(left, right) ==
    Executed("urem", << left, right >>, UDivDefined(left, right), << >>)

div_s(type, left, right) ==
    trapDivideByZeroOrIntegerOverflow(type, left, right, CreateSDiv(left, right))

div_u(type, left, right) == trapDivideByZero(type, right, CreateUDiv(left, right))

rem_u(type, left, right) == trapDivideByZero(type, right, CreateURem(left, right))

\* LLVM: srem is undefined where sdiv of the same operands is.
CreateSRem(left, right) ==
    Executed("srem", << left, right >>, SDivDefined(left, right), << >>)

\* The phi of sremEnd, entered from the block before the overflow test: it
\* yields typedZeroConstants[type].
sremEndFromPreOverflow(type) ==
    Executed("phi", << zeroConstant(type) >>, TRUE, zeroConstant(type))

\* emitSRem with the check of div_s, which traps on the overflowing operands.
emitSRemTrappingOnOverflow(type, left, right) ==
    trapDivideByZeroOrIntegerOverflow(type, left, right, CreateSRem(left, right))

\* The run of the code of emitSRem: the trap check on the divisor, the test
\* for the overflowing operands, and either the srem in sremNoOverflow, whose
\* value the phi of sremEnd passes on, or the zero of the phi.
emitSRem(type, left, right) ==
    trapDivideByZero(type, right,
        LET noOverflow ==
                CreateOr(CreateICmpNE(left, emitLiteralIntMin(type)),
                         CreateICmpNE(right, emitLiteralMinusOne(type)))
        IN  IF noOverflow = << 1 >>
            THEN CreateSRem(left, right)
            ELSE sremEndFromPreOverflow(type))

rem_s(type, left, right) == emitSRem(type, left, right)
\* A shift count passed on as it is.
emitShiftCountUnmasked(type, shiftCount) == shiftCount

emitShiftCountMask(type, shiftCount) ==
    LET bitsMinusOne ==
            zext(emitLiteralOf(getTypeBitWidth(type) - 1, 1), NumLimbs(type))
    IN  CreateAnd(shiftCount, bitsMinusOne)

\* LLVM: a shift by the bit width or more yields poison.
ShiftDefined(a, count) ==
    /\ \A i \in 2 .. Len(count) : count[i] = 0
    /\ count[1] < 16 * Len(a)

\* Limb i of a, beyond its ends 0 below and `fill` above.
LimbAt(a, i, fill) == IF i < 1 THEN 0 ELSE IF i > Len(a) THEN fill ELSE a[i]

\* a shifted by n bits, n less than the bit width: by n \div 16 whole limbs
\* and n % 16 bits; ashr shifts copies of the sign bit in.
ShiftedBy(inst, a, n) ==
    LET q == n \div 16
        r == n % 16
        fill == IF inst = "ashr" /\ IsNegative(a) THEN Limb - 1 ELSE 0
    IN  [ i \in DOMAIN a |->
            IF inst = "shl"
            THEN (LimbAt(a, i - q, 0) % (2 ^ (16 - r))) * (2 ^ r)
                 + LimbAt(a, i - q - 1, 0) \div (2 ^ (16 - r))
            ELSE LimbAt(a, i + q, fill) \div (2 ^ r)
                 + (LimbAt(a, i + q + 1, fill) % (2 ^ r)) * (2 ^ (16 - r)) ]

CreateShift(inst, left, count) ==
    Executed(inst, << left, count >>, ShiftDefined(left, count),
             IF ShiftDefined(left, count)
             THEN ShiftedBy(inst, left, count[1]) ELSE << >>)

CreateShl(left, count) == CreateShift("shl", left, count)

CreateAShr(left, count) == CreateShift("ashr", left, count)

CreateLShr(left, count) == CreateShift("lshr", left, count)

shl(type, left, right) == CreateShl(left, emitShiftCountMask(type, right))

shr_s(type, left, right) == CreateAShr(left, emitShiftCountMask(type, right))

shr_u(type, left, right) == CreateLShr(left, emitShiftCountMask(type, right))

\* irBuilder.CreateSub: the difference wraps.
CreateSub(a, b) == CreateAdd(a, Negated(b))

\* irBuilder.CreateOr of the values of two shifts: poison if either is.
CreateOrOfShifts(x, y) ==
    Executed("or", << x, y >>, x.defined /\ y.defined,
             IF x.defined /\ y.defined THEN CreateOr(x.result, y.result) ELSE << >>)

\* emitRotl that does not mask the count of the right shift.
emitRotlUnmaskedRightShift(type, left, right) ==
    LET bitWidthMinusRight ==
            CreateSub(zext(emitLiteralOf(getTypeBitWidth(type), 1), NumLimbs(type)),
                      right)
    IN  CreateOrOfShifts(CreateShl(left, emitShiftCountMask(type, right)),
                         CreateLShr(left, bitWidthMinusRight))

emitRotl(type, left, right) ==
    LET bitWidthMinusRight ==
            CreateSub(zext(emitLiteralOf(getTypeBitWidth(type), 1), NumLimbs(type)),
                      right)
    IN  CreateOrOfShifts(
            CreateShl(left, emitShiftCountMask(type, right)),
            CreateLShr(left, emitShiftCountMask(type, bitWidthMinusRight)))

emitRotr(type, left, right) ==
    LET bitWidthMinusRight ==
            CreateSub(zext(emitLiteralOf(getTypeBitWidth(type), 1), NumLimbs(type)),
                      right)
    IN  CreateOrOfShifts(
            CreateShl(left, emitShiftCountMask(type, bitWidthMinusRight)),
            CreateLShr(left, emitShiftCountMask(type, right)))

rotl(type, left, right) == emitRotl(type, left, right)

rotr(type, left, right) == emitRotr(type, left, right)
-----------------------------------------------------------------------------
(* Floating point to integer truncation.                                   *)
(* An f32 is NaN, an infinity, or sign, significand m and exponent e with  *)
(* the value m * 2^e, where m is 0 or has exactly 24 bits.                 *)

F32NaN == [ class |-> "nan", sign |-> 0, m |-> 0, e |-> 0 ]

F32Inf(sign) == [ class |-> "inf", sign |-> sign, m |-> 0, e |-> 0 ]

F32(sign, m, e) == [ class |-> "finite", sign |-> sign, m |-> m, e |-> e ]

\* The position of the most significant 1 bit of a non-zero integer.
HighBit(v) ==
    CHOOSE p \in 0 .. 16 * Len(v) - 1 :
        /\ BitOf(v, p) = 1
        /\ \A q \in p + 1 .. 16 * Len(v) - 1 : BitOf(v, q) = 0

\* The f32 nearest to the integer v, ties to the even significand: what the
\* compiler makes of a literal such as 2147483648.0f.
RoundF32(sign, v) ==
    IF IsZero(v) THEN F32(sign, 0, 0)
    ELSE LET p == HighBit(v)
         IN  IF p <= 23
             THEN F32(sign, (v[1] + Limb * v[2]) * (2 ^ (23 - p)), p - 23)
             ELSE LET s  == p - 23
                      q  == ShiftedBy("lshr", v, s)
                      m0 == q[1] + Limb * q[2]
                      half   == BitOf(v, s - 1) = 1
                      sticky == \E j \in 0 .. s - 2 : BitOf(v, j) = 1
                      m1 == IF half /\ (sticky \/ m0 % 2 = 1) THEN m0 + 1 ELSE m0
                  IN  IF m1 = 2 ^ 24 THEN F32(sign, 2 ^ 23, s + 1)
                      ELSE F32(sign, m1, s)

\* emitLiteral(F32): the literals of the source are written as integers.
emitLiteralF32(sign, v) == RoundF32(sign, v)

\* -1, 0 or 1 as |a| is less than, equal to or greater than |b|; no NaNs.
CompareMagnitude(a, b) ==
    LET key(x) == IF x.class = "inf" THEN << 2, 0, 0 >>
                  ELSE IF x.m = 0 THEN << 0, 0, 0 >>
                  ELSE << 1, x.e, x.m >>
        ka == key(a)
        kb == key(b)
        i  == IF ka[1] # kb[1] THEN 1 ELSE IF ka[2] # kb[2] THEN 2 ELSE 3
    IN  IF ka = kb THEN 0 ELSE IF ka[i] < kb[i] THEN -1 ELSE 1

\* -1, 0 or 1 as a is less than, equal to or greater than b; no NaNs.
CompareF32(a, b) ==
    LET zero(x) == x.class = "finite" /\ x.m = 0
    IN  IF zero(a) /\ zero(b) THEN 0
        ELSE IF zero(a) THEN (IF b.sign = 1 THEN 1 ELSE -1)
        ELSE IF zero(b) THEN (IF a.sign = 1 THEN -1 ELSE 1)
        ELSE IF a.sign # b.sign THEN (IF a.sign = 1 THEN -1 ELSE 1)
        ELSE IF a.sign = 0 THEN CompareMagnitude(a, b)
        ELSE 0 - CompareMagnitude(a, b)

Unordered(a, b) == a.class = "nan" \/ b.class = "nan"

CreateFCmpUNO(a, b) == << IF Unordered(a, b) THEN 1 ELSE 0 >>

CreateFCmpOGE(a, b) ==
    << IF ~Unordered(a, b) /\ CompareF32(a, b) >= 0 THEN 1 ELSE 0 >>

CreateFCmpOGT(a, b) ==
    << IF ~Unordered(a, b) /\ CompareF32(a, b) > 0 THEN 1 ELSE 0 >>

CreateFCmpOLE(a, b) ==
    << IF ~Unordered(a, b) /\ CompareF32(a, b) <= 0 THEN 1 ELSE 0 >>

\* |operand| rounded towards zero, as an integer of the destination type;
\* << >> when it has more bits than the type.
TruncatedMagnitude(operand, type) ==
    IF operand.class # "finite" THEN << >>
    ELSE IF operand.m = 0 \/ operand.e < -23 THEN zeroConstant(type)
    ELSE IF operand.e < 0
         THEN emitLiteralOf(operand.m \div (2 ^ (0 - operand.e)), NumLimbs(type))
    ELSE IF operand.e + 24 > getTypeBitWidth(type) THEN << >>
    ELSE ShiftedBy("shl", emitLiteralOf(operand.m, NumLimbs(type)), operand.e)

\* LLVM: fptosi rounds towards zero; the result is poison when it does not
\* fit the destination type.
CreateFPToSI(operand, type) ==
    LET magnitude == TruncatedMagnitude(operand, type)
        defined ==
            /\ magnitude # << >>
            /\ \/ ~IsNegative(magnitude)
               \/ operand.sign = 1 /\ magnitude = emitLiteralIntMin(type)
    IN  Executed("fptosi", << operand >>, defined,
                 IF ~defined THEN << >>
                 ELSE IF operand.sign = 1 THEN Negated(magnitude) ELSE magnitude)

\* LLVM: fptoui rounds towards zero; the result is poison when it does not
\* fit the destination type.
CreateFPToUI(operand, type) ==
    LET magnitude == TruncatedMagnitude(operand, type)
        defined ==
            /\ magnitude # << >>
            /\ operand.sign = 1 => IsZero(magnitude)
    IN  Executed("fptoui", << operand >>, defined,
                 IF defined THEN magnitude ELSE << >>)

\* emitTruncFloatToInt that lets the upper bound itself through.
emitTruncFloatToIntAboveMax(destType, isSigned, minBounds, maxBounds, operand) ==
    IF CreateFCmpUNO(operand, operand) = << 1 >>
    THEN Trapped("invalidFloatOperationTrap")
    ELSE IF CreateOr(CreateFCmpOGT(operand, maxBounds),
                     CreateFCmpOLE(operand, minBounds)) = << 1 >>
    THEN Trapped("divideByZeroOrIntegerOverflowTrap")
    ELSE IF isSigned THEN CreateFPToSI(operand, destType)
    ELSE CreateFPToUI(operand, destType)

emitTruncFloatToInt(destType, isSigned, minBounds, maxBounds, operand) ==
    LET isNaN == CreateFCmpUNO(operand, operand)
        isOverflow == CreateOr(CreateFCmpOGE(operand, maxBounds),
                               CreateFCmpOLE(operand, minBounds))
    IN  IF isNaN = << 1 >>
        THEN Trapped("invalidFloatOperationTrap")
        ELSE IF isOverflow = << 1 >>
        THEN Trapped("divideByZeroOrIntegerOverflowTrap")
        ELSE IF isSigned THEN CreateFPToSI(operand, destType)
        ELSE CreateFPToUI(operand, destType)

\* -2147483904.0f and 2147483648.0f
i32_trunc_s_f32(operand) ==
    emitTruncFloatToInt("i32", TRUE,
                        emitLiteralF32(1, << 256, Limb \div 2 >>),
                        emitLiteralF32(0, << 0, Limb \div 2 >>),
                        operand)

\* -1.0f and 4294967296.0f
i32_trunc_u_f32(operand) ==
    emitTruncFloatToInt("i32", FALSE,
                        emitLiteralF32(1, << 1, 0 >>),
                        emitLiteralF32(0, << 0, 0, 1, 0 >>),
                        operand)
-----------------------------------------------------------------------------
(* Operators and their decoding. *)

NoType == [ params |-> << >>, results |-> << >> ]

FunctionType(params, results) == [ params |-> params, results |-> results ]

\* An operator record: opcode, block type, an index (branch depth, local,
\* exception type or literal) and the target depths of a br_table.
Op(code, type, index, targets) ==
    [ code |-> code, type |-> type, index |-> index, targets |-> targets ]

ControlOpcodes == { "block", "loop", "if", "else", "end", "try", "catch", "catch_all" }

\* decoder.decodeOp(*this): the emitter's method named by the opcode.
Handle(e, op) ==
    CASE op.code = "block"       -> block(e, op.type)
      [] op.code = "loop"        -> loop(e, op.type)
      [] op.code = "if"          -> if_(e, op.type)
      [] op.code = "else"        -> else_(e)
      [] op.code = "end"         -> end(e)
      [] op.code = "br"          -> br(e, op.index)
      [] op.code = "br_if"       -> br_if(e, op.index)
      [] op.code = "br_table"    -> br_table(e, op.index, op.targets)
      [] op.code = "return"      -> return_(e)
      [] op.code = "unreachable" -> unreachable(e)
      [] op.code = "drop"        -> drop(e)
      [] op.code = "i32.const"   -> i32_const(e, op.index)
      [] op.code = "i32.eqz"     -> i32_eqz(e)
      [] op.code = "i8x16.splat" -> i8x16_splat(e)
      [] op.code = "get_local"   -> get_local(e, op.index)
      [] op.code = "tee_local"   -> tee_local(e, op.index)
      [] op.code = "try"         -> try_(e, op.type)
      [] op.code = "catch"       -> catch_(e, op.index)
      [] op.code = "catch_all"   -> catch_all(e)
      [] op.code = "throw"       -> throw_(e, op.index)
      [] op.code = "rethrow"     -> rethrow(e, op.index)
      [] op.code = "call"        -> call(e, op.index)
      [] op.code = "call_indirect" -> call_indirect(e, op.index)

\* A visitor that passes every else and end on to the emitter, whatever its
\* nesting counter says.
UnreachableOpVisitorIgnoringDepth(depth, op) ==
    IF op.code \in { "else", "end" }
       \/ (op.code \in { "catch", "catch_all" } /\ depth = 0)
    THEN [ forwarded |-> TRUE, depth |-> depth ]
    ELSE [ forwarded |-> FALSE,
           depth |-> IF op.code \in { "block", "loop", "if", "try" }
                     THEN depth + 1 ELSE depth ]

\* A visitor whose try_ does not count the structure it opens.
UnreachableOpVisitorNotCountingTry(depth, op) ==
    LET skip(d) == [ forwarded |-> FALSE, depth |-> d ]
        forward == [ forwarded |-> TRUE, depth |-> depth ]
    IN  CASE op.code \in { "block", "loop", "if" } -> skip(depth + 1)
          [] op.code \in { "else", "catch", "catch_all" } ->
                IF depth = 0 THEN forward ELSE skip(depth)
          [] op.code = "end" ->
                IF depth = 0 THEN forward ELSE skip(depth - 1)
          [] OTHER -> skip(depth)

\* decoder.decodeOp(unreachableOpVisitor): the visitor's method named by the
\* opcode.  It either passes the operator on to the emitter's method of the
\* same name or only adjusts its nesting counter.
UnreachableOpVisitor(depth, op) ==
    LET skip(d) == [ forwarded |-> FALSE, depth |-> d ]
        forward == [ forwarded |-> TRUE, depth |-> depth ]
    IN  CASE op.code \in { "block", "loop", "if", "try" } -> skip(depth + 1)
          [] op.code \in { "else", "catch", "catch_all" } ->
                IF depth = 0 THEN forward ELSE skip(depth)
          [] op.code = "end" ->
                IF depth = 0 THEN forward ELSE skip(depth - 1)
          [] OTHER -> skip(depth)

\* The emitter state read from the variables.
Cur ==
    [ functionType      |-> functionType,
      stack             |-> stack,
      controlStack      |-> controlStack,
      branchTargetStack |-> branchTargetStack,
      tryStack          |-> tryStack,
      catchStack        |-> catchStack,
      phis              |-> phis,
      terms             |-> terms,
      insertBlock       |-> insertBlock,
      numInsts          |-> numInsts,
      calls             |-> calls,
      assertFailed      |-> assertFailed ]

Commit(e) ==
    /\ stack' = e.stack
    /\ controlStack' = e.controlStack
    /\ branchTargetStack' = e.branchTargetStack
    /\ tryStack' = e.tryStack
    /\ catchStack' = e.catchStack
    /\ phis' = e.phis
    /\ terms' = e.terms
    /\ insertBlock' = e.insertBlock
    /\ numInsts' = e.numInsts
    /\ calls' = e.calls
    /\ assertFailed' = e.assertFailed

\* The kinds of the structures open in unreachable code, after op.
SkippedAfter(op) ==
    IF Last(controlStack).isReachable THEN << >>
    ELSE CASE op.code \in { "block", "loop", "if", "try" } -> Append(skipped, op.code)
           [] op.code = "end" -> Front(skipped)
           [] op.code = "else" /\ skipped # << >> ->
                 [ skipped EXCEPT ![Len(skipped)] = "else" ]
           [] op.code \in { "catch", "catch_all" } /\ skipped # << >> ->
                 [ skipped EXCEPT ![Len(skipped)] = "catch" ]
           [] OTHER -> skipped

\* The operator loop has passed `op` to a method of the emitter, which left
\* the emitter in state `emitted`.
Dispatched(emitted, depth, op, by) ==
    /\ Commit(emitted)
    /\ unreachableControlDepth' = depth
    /\ lastOp' = [ op |-> op, by |-> by ]

\* The operator loop has passed `op` to the visitor of unreachable code.
Visited(visit, emitted, op) ==
    IF visit.forwarded
    THEN Dispatched(emitted, visit.depth, op, "forwarded")
    ELSE /\ UNCHANGED << stack, controlStack, branchTargetStack, tryStack,
                         catchStack, phis, terms, insertBlock, numInsts,
                         calls, assertFailed >>
         /\ unreachableControlDepth' = visit.depth
         /\ lastOp' = [ op |-> op, by |-> "visitor" ]

\* One turn of the operator loop of EmitFunctionContext::emit.  `emitted` is
\* what the emitter's method for `op` makes of the current state.
decodeOperator(op, emitted) ==
    /\ controlStack # << >>
    /\ IF Last(controlStack).isReachable
       THEN Dispatched(emitted, unreachableControlDepth, op, "emitter")
       ELSE Visited(UnreachableOpVisitor(unreachableControlDepth, op), emitted, op)
    /\ skipped' = SkippedAfter(op)
    /\ numOps' = numOps + 1
    /\ UNCHANGED << functionType, script, access, run, moduleContext, sexp >>

\* The same for a build that has only the table-based implementation.
decodeOp(op, emitted) == decodeOperator(op, emitted) /\ UNCHANGED funclet

-----------------------------------------------------------------------------
(* The function bodies: what the validator lets through.                   *)
(* In reachable code the validator's operand types are the types of the   *)
(* values on the emitter's stack; in unreachable code its stack is        *)
(* polymorphic and only the nesting of the structures is checked.         *)

BlockTypes ==
    { NoType,
      FunctionType(<< "i32" >>, << "i32" >>),
      FunctionType(<< "v128" >>, << "v128" >>),
      FunctionType(<< >>, << "i32", "i32" >>) }

FunctionTypes ==
    { NoType,
      FunctionType(<< "i32" >>, << "i32" >>) }

Literals == { 1 }

\* The target-depth vectors of the br_tables of a body.
BranchTables(numTargets) ==
    { << >> } \cup { << d >> : d \in 0 .. numTargets - 1 }
              \cup { << d, d >> : d \in 0 .. numTargets - 1 }

Reachable == Last(controlStack).isReachable

\* The control frames that are catch clauses, the outermost first.
CatchClauses ==
    SelectSeq([ i \in DOMAIN controlStack |-> i ],
              LAMBDA i : controlStack[i].type = "catch")

\* The operands of the innermost frame and their types.
Operands == SubSeq(stack, OuterStackSize(Cur) + 1, Len(stack))

OperandTypes == TypesOf(Operands)

EndsWith(types, suffix) ==
    /\ Len(types) >= Len(suffix)
    /\ TopN(types, Len(suffix)) = suffix

Nesting == Len(controlStack) - 1 + Len(skipped)

LabelTypes(depth) == getBranchTargetByDepth(Cur, depth).params

ValidReachable(op) ==
    CASE op.code \in { "block", "loop", "try" } ->
            EndsWith(OperandTypes, op.type.params)
      [] op.code = "if" ->
            EndsWith(OperandTypes, op.type.params \o << "i32" >>)
      [] op.code = "else" ->
            /\ Last(controlStack).type = "ifThen"
            /\ OperandTypes = Last(controlStack).resultTypes
      [] op.code = "end" ->
            /\ OperandTypes = Last(controlStack).resultTypes
            /\ Last(controlStack).type = "ifThen" =>
                   TypesOf(Last(controlStack).elseArgs) = Last(controlStack).resultTypes
      [] op.code \in { "catch", "catch_all" } ->
            /\ Last(controlStack).type \in { "try", "catch" }
            /\ OperandTypes = Last(controlStack).resultTypes
            /\ op.code = "catch" => op.index < Len(exceptionTypeInstances)
      [] op.code = "br" ->
            /\ op.index < Len(branchTargetStack)
            /\ EndsWith(OperandTypes, LabelTypes(op.index))
      [] op.code = "br_if" ->
            /\ op.index < Len(branchTargetStack)
            /\ EndsWith(OperandTypes, LabelTypes(op.index) \o << "i32" >>)
      [] op.code = "br_table" ->
            /\ op.index < Len(branchTargetStack)
            /\ \A i \in DOMAIN op.targets :
                   /\ op.targets[i] < Len(branchTargetStack)
                   /\ LabelTypes(op.targets[i]) = LabelTypes(op.index)
            /\ EndsWith(OperandTypes, LabelTypes(op.index) \o << "i32" >>)
      [] op.code = "return" -> EndsWith(OperandTypes, functionType.results)
      [] op.code = "unreachable" -> TRUE
      [] op.code = "drop" -> Len(OperandTypes) >= 1
      [] op.code = "i32.const" -> TRUE
      [] op.code \in { "i32.eqz", "i8x16.splat" } -> EndsWith(OperandTypes, << "i32" >>)
      [] op.code = "get_local" -> op.index < Len(functionType.params)
      [] op.code = "tee_local" ->
            /\ op.index < Len(functionType.params)
            /\ EndsWith(OperandTypes, << functionType.params[op.index + 1] >>)
      [] op.code = "throw" ->
            /\ op.index < Len(exceptionTypeInstances)
            /\ EndsWith(OperandTypes, exceptionTypeInstances[op.index + 1])
      [] op.code = "rethrow" -> op.index < Len(CatchClauses)
      [] op.code = "call" ->
            /\ op.index < Len(moduleFunctions)
            /\ EndsWith(OperandTypes, moduleFunctions[op.index + 1].params)
      [] op.code = "call_indirect" ->
            /\ op.index < Len(moduleFunctions)
            /\ EndsWith(OperandTypes,
                        moduleFunctions[op.index + 1].params \o << "i32" >>)

\* In unreachable code the operand stack is polymorphic: only the nesting
\* of the structures is checked.
ValidUnreachable(op) ==
    CASE op.code \in { "block", "loop", "if", "try" } -> TRUE
         [] op.code = "else" ->
               IF skipped = << >> THEN Last(controlStack).type = "ifThen"
               ELSE Last(skipped) = "if"
         [] op.code = "end" ->
               \/ skipped # << >>
               \/ Last(controlStack).type = "ifThen" =>
                      TypesOf(Last(controlStack).elseArgs)
                          = Last(controlStack).resultTypes
         [] op.code \in { "catch", "catch_all" } ->
               IF skipped = << >> THEN Last(controlStack).type \in { "try", "catch" }
               ELSE Last(skipped) \in { "try", "catch" }
         [] OTHER -> TRUE

Valid(op) == IF Reachable THEN ValidReachable(op) ELSE ValidUnreachable(op)

\* The bounds of a generated body.  In unreachable code the visitor does
\* nothing for an operator that is not a control operator and reads no
\* immediate: `drop` and `br 0` stand for the operators without effect, and
\* one block type for all.
Bounded(op) ==
    /\ numOps < MaxOps
    /\ op.code \in { "block", "loop", "if", "try" } => Nesting < MaxControlDepth
    /\ Reachable /\ op.code \in { "i32.const", "get_local" } => Len(stack) < MaxStack
    /\ ~Reachable =>
           /\ op.type = NoType /\ op.index = 0 /\ op.targets = << >>
           /\ op.code \in ControlOpcodes \cup { "drop", "br" }

\* The next operator of a generated body.
Feed(op) ==
    /\ script = << >>
    /\ controlStack # << >>
    /\ Bounded(op)
    /\ Valid(op)

-----------------------------------------------------------------------------
(* Fixed function bodies. *)

Simple(code) == Op(code, NoType, 0, << >>)

Indexed(code, index) == Op(code, NoType, index, << >>)

Typed(code, params, results) == Op(code, FunctionType(params, results), 0, << >>)

\* (block (result i32) (i32.const 1) (i32.const 2) (br 0) (drop))
BranchWithArgs ==
    [ type |-> FunctionType(<< >>, << "i32" >>),
      body |-> << Typed("block", << >>, << "i32" >>),
                  Indexed("i32.const", 1), Indexed("i32.const", 2),
                  Indexed("br", 0), Simple("drop"),
                  Simple("end"), Simple("end") >> ]

\* A br_if to a label of two values: (1, 2) when the argument is not zero
\* and (3, 4) when it is.
BranchIfWithArgs ==
    [ type |-> FunctionType(<< "i32" >>, << "i32", "i32" >>),
      body |-> << Typed("block", << >>, << "i32", "i32" >>),
                  Indexed("i32.const", 1), Indexed("i32.const", 2),
                  Indexed("get_local", 0), Indexed("br_if", 0),
                  Simple("drop"), Simple("drop"),
                  Indexed("i32.const", 3), Indexed("i32.const", 4),
                  Simple("end"), Simple("end") >> ]

\* A br_table that lists the block twice and its default among the cases.
BranchTableWithArgs ==
    [ type |-> FunctionType(<< "i32" >>, << "i32" >>),
      body |-> << Typed("block", << >>, << "i32" >>),
                  Indexed("i32.const", 7), Indexed("get_local", 0),
                  Op("br_table", NoType, 1, << 0, 0, 1 >>),
                  Simple("end"), Simple("end") >> ]

\* [local.get 0, i32.const c, i32.eqz, if ifType, arm..., end, end]
MissingElseBody(c, ifType, arm) ==
    [ type |-> FunctionType(<< "i32" >>, << "i32" >>),
      body |-> << Indexed("get_local", 0), Indexed("i32.const", c),
                  Simple("i32.eqz"), Op("if", ifType, 0, << >>) >>
               \o arm \o << Simple("end"), Simple("end") >> ]

\* The missing-else bodies the validator accepts: the `if` takes the
\* argument as its parameter and its then-arm leaves one value.
MissingElseIdentityBodies ==
    { MissingElseBody(c, FunctionType(<< "i32" >>, << "i32" >>), arm) :
          c \in { 0, 1 },
          arm \in { << >>, << Simple("drop"), Indexed("get_local", 0) >> } }

\* The same bodies with every reading of the `if` and every then-arm,
\* validated or not.
MissingElseBodies ==
    { MissingElseBody(c, ifType, arm) :
          c \in { 0, 1 },
          ifType \in { NoType, FunctionType(<< >>, << "i32" >>),
                       FunctionType(<< "i32" >>, << "i32" >>) },
          arm \in { << >>, << Indexed("get_local", 0) >>,
                    << Simple("drop"), Indexed("get_local", 0) >> } }

\* A throw of the exception type with two parameters.
ThrowWithArgs ==
    [ type |-> NoType,
      body |-> << Indexed("i32.const", 1), Indexed("i32.const", 2),
                  Indexed("throw", 2), Simple("end") >> ]

\* An `if` with a parameter whose then-arm becomes unreachable and then
\* opens a block and in it a try with a catch_all clause, before the `else`
\* of the `if`.
SkippedNesting ==
    [ type |-> NoType,
      body |-> << Indexed("i32.const", 7), Indexed("i32.const", 1),
                  Typed("if", << "i32" >>, << "i32" >>), Simple("unreachable"),
                  Simple("block"), Simple("try"), Simple("catch_all"),
                  Simple("end"), Simple("end"),
                  Simple("else"), Simple("end"), Simple("drop"),
                  Simple("end") >> ]

\* An `if` without else whose then-arm ends unreachable; the condition is
\* false.
MissingElseUnreachable ==
    MissingElseBody(1, FunctionType(<< "i32" >>, << "i32" >>),
                    << Simple("unreachable") >>)

ValidatedScenarios ==
    { BranchWithArgs, BranchIfWithArgs, BranchTableWithArgs, ThrowWithArgs,
      SkippedNesting, MissingElseUnreachable }
        \cup MissingElseIdentityBodies

Scenarios == ValidatedScenarios \cup MissingElseBodies

-----------------------------------------------------------------------------
(* Initial state: EmitFunctionContext::emit up to the operator loop. *)

ReturnBlock == 1

EntryBlock == 2

NoOp == [ op |-> Op("none", NoType, 0, << >>), by |-> "none" ]

\* No module is being emitted: one function is looked at on its own.
NoModuleContext == [ functionDefs |-> << >> ]

\* No string is being parsed.
NoSExp == [ string |-> << >> ]

\* No emitted code has been run.
NoRun == [ op |-> "none", operands |-> << >>, outcome |-> << >> ]

\* No memory access has been emitted for the byte index and the offset.
NoAccess(byteIndex, offset) ==
    [ op |-> "none", index |-> byteIndex, offset |-> offset, pointer |-> << >> ]

Created(type) ==
    [ functionType      |-> type,
      stack             |-> << >>,
      controlStack      |-> << >>,
      branchTargetStack |-> << >>,
      tryStack          |-> << >>,
      catchStack        |-> << >>,
      phis              |-> << >>,
      terms             |-> << >>,
      insertBlock       |-> NoBlock,
      numInsts          |-> 0,
      calls             |-> << >>,
      assertFailed      |-> FALSE ]

emitPrologue(type) ==
    LET e0 == Created(type)
        returnPHIs == NewPHIs(e0, type.results)
        e1 == createPHIs(CreateBlock(e0), ReturnBlock, type.results)
        e2 == pushControlStack(e1, "function", type.results, ReturnBlock,
                               returnPHIs, NoBlock, << >>)
        e3 == pushBranchTarget(e2, type.results, ReturnBlock, returnPHIs)
        e4 == SetInsertPoint(CreateBlock(e3), EntryBlock)
    \* three allocas, the store of the context, the reload of the memory and
    \* table base; an alloca and a store per local
    IN  Emit(e4, 8 + 2 * Len(type.params))

InitFunction(type, body) ==
    LET e == emitPrologue(type)
    IN  /\ functionType = type
        /\ stack = e.stack
        /\ controlStack = e.controlStack
        /\ branchTargetStack = e.branchTargetStack
        /\ tryStack = e.tryStack
        /\ catchStack = e.catchStack
        /\ phis = e.phis
        /\ terms = e.terms
        /\ insertBlock = e.insertBlock
        /\ numInsts = e.numInsts
        /\ calls = e.calls
        /\ assertFailed = e.assertFailed
        /\ unreachableControlDepth = 0
        /\ skipped = << >>
        /\ numOps = 0
        /\ lastOp = NoOp
        /\ script = body

\* The emitter state of the funclet-based build, where only the table-based
\* build is looked at.
NoFunclet == [ controlStack |-> << >> ]

InitEmitter(type, body) == InitFunction(type, body) /\ funclet = NoFunclet

InitWith(type, body, memoryAccess) ==
    /\ InitEmitter(type, body)
    /\ access = memoryAccess
    /\ run = NoRun
    /\ moduleContext = NoModuleContext
    /\ sexp = NoSExp

Init ==
    \/ \E type \in FunctionTypes :
           InitWith(type, << >>, NoAccess(<< 0, 0 >>, << 0, 0 >>))
    \/ \E s \in ValidatedScenarios :
           InitWith(s.type, s.body, NoAccess(<< 0, 0 >>, << 0, 0 >>))

-----------------------------------------------------------------------------
(* Actions: one per operator of a generated body. *)

OpBlock == \E bt \in BlockTypes :
    LET op == Op("block", bt, 0, << >>) IN Feed(op) /\ decodeOp(op, block(Cur, bt))

OpLoop == \E bt \in BlockTypes :
    LET op == Op("loop", bt, 0, << >>) IN Feed(op) /\ decodeOp(op, loop(Cur, bt))

OpIf == \E bt \in BlockTypes :
    LET op == Op("if", bt, 0, << >>) IN Feed(op) /\ decodeOp(op, if_(Cur, bt))

OpElse == LET op == Op("else", NoType, 0, << >>) IN Feed(op) /\ decodeOp(op, else_(Cur))

OpEnd == LET op == Op("end", NoType, 0, << >>) IN Feed(op) /\ decodeOp(op, end(Cur))

OpBr == \E d \in 0 .. MaxControlDepth :
    LET op == Op("br", NoType, d, << >>) IN Feed(op) /\ decodeOp(op, br(Cur, d))

OpBrIf == \E d \in 0 .. MaxControlDepth :
    LET op == Op("br_if", NoType, d, << >>) IN Feed(op) /\ decodeOp(op, br_if(Cur, d))

OpBrTable == \E d \in 0 .. MaxControlDepth :
    \E ts \in BranchTables(MaxControlDepth + 1) :
        LET op == Op("br_table", NoType, d, ts) IN Feed(op) /\ decodeOp(op, br_table(Cur, d, ts))

OpReturn == LET op == Op("return", NoType, 0, << >>) IN Feed(op) /\ decodeOp(op, return_(Cur))

OpUnreachable ==
    LET op == Op("unreachable", NoType, 0, << >>) IN Feed(op) /\ decodeOp(op, unreachable(Cur))

OpDrop == LET op == Op("drop", NoType, 0, << >>) IN Feed(op) /\ decodeOp(op, drop(Cur))

OpI32Const == \E n \in Literals :
    LET op == Op("i32.const", NoType, n, << >>) IN Feed(op) /\ decodeOp(op, i32_const(Cur, n))

OpI32Eqz == LET op == Op("i32.eqz", NoType, 0, << >>) IN Feed(op) /\ decodeOp(op, i32_eqz(Cur))

OpI8x16Splat ==
    LET op == Op("i8x16.splat", NoType, 0, << >>) IN Feed(op) /\ decodeOp(op, i8x16_splat(Cur))

OpGetLocal == LET op == Op("get_local", NoType, 0, << >>) IN Feed(op) /\ decodeOp(op, get_local(Cur, 0))

OpTeeLocal == LET op == Op("tee_local", NoType, 0, << >>) IN Feed(op) /\ decodeOp(op, tee_local(Cur, 0))

OpTry == \E bt \in BlockTypes :
    LET op == Op("try", bt, 0, << >>) IN Feed(op) /\ decodeOp(op, try_(Cur, bt))

OpCatch == \E i \in 0 .. Len(exceptionTypeInstances) - 1 :
    LET op == Op("catch", NoType, i, << >>) IN Feed(op) /\ decodeOp(op, catch_(Cur, i))

OpCatchAll == LET op == Op("catch_all", NoType, 0, << >>) IN Feed(op) /\ decodeOp(op, catch_all(Cur))

OpThrow == \E i \in 0 .. Len(exceptionTypeInstances) - 1 :
    LET op == Op("throw", NoType, i, << >>) IN Feed(op) /\ decodeOp(op, throw_(Cur, i))

\* The next operator of a fixed body the validator accepts.
OpScript ==
    /\ script # << >>
    /\ numOps < Len(script)
    /\ controlStack # << >>
    /\ Valid(script[numOps + 1])
    /\ decodeOp(script[numOps + 1], Handle(Cur, script[numOps + 1]))

\* The next operator of a fixed body that was not validated.
OpUnvalidated ==
    /\ script # << >>
    /\ numOps < Len(script)
    /\ controlStack # << >>
    /\ decodeOp(script[numOps + 1], Handle(Cur, script[numOps + 1]))

\* emitReturn: the function returns the values left on the operand stack.
emitReturn(e) == CreateTerm(e, "ret", e.stack, << >>)

\* After the operator loop, which ends with the control stack or with the
\* body: the assertion on the insertion point and emitReturn.
finishFunction ==
    /\ controlStack = << >> \/ (script # << >> /\ numOps = Len(script))
    /\ lastOp.by # "finish"
    /\ Commit(emitReturn(wavmAssert(Cur, insertBlock = ReturnBlock)))
    /\ lastOp' = [ op |-> Op("finish", NoType, 0, << >>), by |-> "finish" ]
    /\ UNCHANGED << functionType, unreachableControlDepth, skipped, numOps, script,
                    access, run, moduleContext, sexp >>

Finish == finishFunction /\ UNCHANGED funclet

Next ==
    \/ OpBlock \/ OpLoop \/ OpIf \/ OpElse \/ OpEnd
    \/ OpBr \/ OpBrIf \/ OpBrTable \/ OpReturn \/ OpUnreachable
    \/ OpDrop \/ OpI32Const \/ OpI32Eqz \/ OpI8x16Splat \/ OpGetLocal \/ OpTeeLocal
    \/ OpTry \/ OpCatch \/ OpCatchAll \/ OpThrow
    \/ OpScript
    \/ Finish

Spec == Init /\ [][Next]_vars

-----------------------------------------------------------------------------
(* Calls and their unwind destinations: bodies of try, catch, call,        *)
(* call_indirect and the operators that call a runtime intrinsic.          *)

OpCall == \E f \in 0 .. Len(moduleFunctions) - 1 :
    LET op == Op("call", NoType, f, << >>) IN Feed(op) /\ decodeOp(op, call(Cur, f))

OpCallIndirect == \E t \in 0 .. Len(moduleFunctions) - 1 :
    LET op == Op("call_indirect", NoType, t, << >>)
    IN  Feed(op) /\ decodeOp(op, call_indirect(Cur, t))

OpRethrow == \E d \in 0 .. MaxControlDepth - 1 :
    LET op == Op("rethrow", NoType, d, << >>) IN Feed(op) /\ decodeOp(op, rethrow(Cur, d))

InitUnwind == InitWith(NoType, << >>, NoAccess(<< 0, 0 >>, << 0, 0 >>))

NextUnwind ==
    \/ OpTry \/ OpCatch \/ OpCatchAll \/ OpEnd \/ OpBlock
    \/ OpCall \/ OpCallIndirect \/ OpUnreachable \/ OpThrow \/ OpRethrow \/ OpI32Const
    \/ Finish

SpecUnwind == InitUnwind /\ [][NextUnwind]_vars

-----------------------------------------------------------------------------
(* The two implementations of the exception handling operators, given the  *)
(* same function body operator by operator: the table-based build in the   *)
(* emitter's variables, the funclet-based build in `funclet`, with its own *)
(* counter of the structures opened in unreachable code.                   *)

HandleWin32(e, op) ==
    CASE op.code = "try"       -> try_win32(e, op.type)
      [] op.code = "catch"     -> catch_win32(e, op.index)
      [] op.code = "catch_all" -> catch_all_win32(e)
      [] op.code = "end"       -> end_win64(e)
      [] OTHER                 -> Handle(e, op)

\* One turn of the operator loop in the funclet-based build.
decodeOpWin32(f, op) ==
    IF f.controlStack = << >> THEN f
    ELSE IF Last(f.controlStack).isReachable THEN HandleWin32(f, op)
    ELSE LET visit == UnreachableOpVisitor(f.unreachableControlDepth, op)
         IN  [ (IF visit.forwarded THEN HandleWin32(f, op) ELSE f)
                   EXCEPT !.unreachableControlDepth = visit.depth ]

\* After the operator loop: emitReturn, and the localescape intrinsic and the
\* branch to the entry block in the local-escape block, if there is one.
finishWin32(f) ==
    LET f1 == emitReturn(wavmAssert(f, f.insertBlock = ReturnBlock))
    IN  IF f1.localEscapeBlock # NoBlock
        THEN CreateBr(Emit(SetInsertPoint(f1, f1.localEscapeBlock), 1), EntryBlock)
        ELSE f1

InitLowering ==
    \E type \in FunctionTypes :
        /\ InitFunction(type, << >>)
        /\ funclet = emitPrologue(type)
                       @@ [ localEscapeBlock        |-> NoBlock,
                            pendingLocalEscapes     |-> 0,
                            unreachableControlDepth |-> 0 ]
        /\ access = NoAccess(<< 0, 0 >>, << 0, 0 >>)
        /\ run = NoRun
        /\ moduleContext = NoModuleContext
        /\ sexp = NoSExp

\* Both builds are given the operator.
Lowered(op) ==
    /\ Feed(op)
    /\ decodeOperator(op, Handle(Cur, op))
    /\ funclet' = decodeOpWin32(funclet, op)

LowerTry == \E bt \in BlockTypes : Lowered(Op("try", bt, 0, << >>))

LowerCatch ==
    \E i \in 0 .. Len(exceptionTypeInstances) - 1 : Lowered(Op("catch", NoType, i, << >>))

LowerCatchAll == Lowered(Op("catch_all", NoType, 0, << >>))

LowerEnd == Lowered(Op("end", NoType, 0, << >>))

LowerThrow ==
    \E i \in 0 .. Len(exceptionTypeInstances) - 1 : Lowered(Op("throw", NoType, i, << >>))

\* The operators that have one implementation for both builds.
LowerOther ==
    \E code \in { "block", "unreachable", "drop", "i32.const", "br" } :
        Lowered(Op(code, NoType, 0, << >>))

FinishLowering == finishFunction /\ funclet' = finishWin32(funclet)

NextLowering ==
    \/ LowerTry \/ LowerCatch \/ LowerCatchAll \/ LowerEnd \/ LowerThrow
    \/ LowerOther \/ FinishLowering

SpecLowering == InitLowering /\ [][NextLowering]_vars

-----------------------------------------------------------------------------
(* Fixed bodies, validated or not. *)

InitScenario ==
    \E s \in Scenarios : InitWith(s.type, s.body, NoAccess(<< 0, 0 >>, << 0, 0 >>))

NextScenario == OpUnvalidated \/ Finish

SpecScenario == InitScenario /\ [][NextScenario]_vars

-----------------------------------------------------------------------------
(* Memory accesses: the byte index is a value of the running program, the  *)
(* offset an immediate of the operator.                                    *)

LimbValues == { 0, 1, Limb \div 2 - 1, Limb \div 2, Limb - 1 }

Words32 == { << lo, hi >> : lo \in LimbValues, hi \in LimbValues }

emitterVars ==
    << functionType, stack, controlStack, branchTargetStack, tryStack,
       catchStack, phis, terms, insertBlock, numInsts, calls, assertFailed,
       unreachableControlDepth, skipped, numOps, lastOp, script, funclet >>

InitMemory ==
    \E byteIndex \in Words32 : \E offset \in Words32 :
        InitWith(NoType, << >>, NoAccess(byteIndex, offset))

OpI32Load ==
    /\ access.op = "none"
    /\ access' = i32_load(access.index, access.offset)
    /\ UNCHANGED << emitterVars, run, moduleContext, sexp >>

OpI32Store ==
    /\ access.op = "none"
    /\ access' = i32_store(access.index, access.offset)
    /\ UNCHANGED << emitterVars, run, moduleContext, sexp >>

OpI32AtomicRmwAdd ==
    /\ access.op = "none"
    /\ access' = i32_atomic_rmw_add(access.index, access.offset)
    /\ UNCHANGED << emitterVars, run, moduleContext, sexp >>

OpI32AtomicLoad ==
    /\ access.op = "none"
    /\ access' = i32_atomic_load(access.index, access.offset)
    /\ UNCHANGED << emitterVars, run, moduleContext, sexp >>

OpI64AtomicLoad ==
    /\ access.op = "none"
    /\ access' = i64_atomic_load(access.index, access.offset)
    /\ UNCHANGED << emitterVars, run, moduleContext, sexp >>

OpI32AtomicLoad8U ==
    /\ access.op = "none"
    /\ access' = i32_atomic_load8_u(access.index, access.offset)
    /\ UNCHANGED << emitterVars, run, moduleContext, sexp >>

OpI32AtomicStore16 ==
    /\ access.op = "none"
    /\ access' = i32_atomic_store16(access.index, access.offset)
    /\ UNCHANGED << emitterVars, run, moduleContext, sexp >>

OpI32AtomicRmwCmpxchg ==
    /\ access.op = "none"
    /\ access' = i32_atomic_rmw_cmpxchg(access.index, access.offset)
    /\ UNCHANGED << emitterVars, run, moduleContext, sexp >>

NextMemory ==
    \/ OpI32Load \/ OpI32Store
    \/ OpI32AtomicLoad \/ OpI64AtomicLoad \/ OpI32AtomicLoad8U
    \/ OpI32AtomicStore16 \/ OpI32AtomicRmwCmpxchg \/ OpI32AtomicRmwAdd

SpecMemory == InitMemory /\ [][NextMemory]_vars

-----------------------------------------------------------------------------
(* Integer operators, run: the operands are values of the running program. *)

IntTypes == { "i32", "i64" }

\* The operand values: every limb is 0, a sign bit alone or all ones, and
\* for i32 also 1 and the largest positive limb.
Words(type) ==
    IF type = "i64"
    THEN LET L == { 0, Limb \div 2, Limb - 1 }
         IN  { << a, b, c, d >> : a \in L, b \in L, c \in L, d \in L }
    ELSE Words32

\* Shift counts around the bit widths.
ShiftCounts == { 5, 31, 32, 33, 63, 64, 65 }

IntOperands(type) ==
    Words(type) \cup { emitLiteralOf(n, NumLimbs(type)) : n \in ShiftCounts }

\* The f32 operands: NaN, the infinities, the zeros, and the significands
\* 2^23, 2^23 + 1 and 2^24 - 1 at exponents that put the value near 1,
\* between 1 and 2^24, and around 2^31; and the literals of the scenarios.
F32Operands ==
    { F32NaN }
    \cup { F32Inf(sign) : sign \in { 0, 1 } }
    \cup { F32(sign, 0, 0) : sign \in { 0, 1 } }
    \cup { F32(sign, m, e) : sign \in { 0, 1 },
                             m \in { 2 ^ 23, 2 ^ 23 + 1, 2 ^ 24 - 1 },
                             e \in { -30, -24, -23, -22, -1, 0, 7, 8, 9, 40 } }
    \cup { RoundF32(sign, << Limb - 1, Limb \div 2 - 1 >>) : sign \in { 0, 1 } }

InitNumeric ==
    /\ InitEmitter(NoType, << >>)
    /\ access = NoAccess(<< 0, 0 >>, << 0, 0 >>)
    /\ moduleContext = NoModuleContext
    /\ sexp = NoSExp
    /\ \/ \E type \in IntTypes :
          \E left \in IntOperands(type) : \E right \in IntOperands(type) :
              run = [ op |-> "none", type |-> type,
                      operands |-> << left, right >>,
                      outcome |-> Trapped("none") ]
       \/ \E operand \in F32Operands :
              run = [ op |-> "none", type |-> "f32", operands |-> << operand >>,
                      outcome |-> Trapped("none") ]

\* EMIT_BINARY_OP and EMIT_UNARY_OP: the operator applied to its operands.
Ran(types, op, outcome) ==
    /\ run.op = "none"
    /\ run.type \in types
    /\ run' = [ run EXCEPT !.op = op, !.outcome = outcome ]
    /\ UNCHANGED << emitterVars, access, moduleContext, sexp >>

OpDivS == Ran(IntTypes, "div_s", div_s(run.type, run.operands[1], run.operands[2]))

OpDivU == Ran(IntTypes, "div_u", div_u(run.type, run.operands[1], run.operands[2]))

OpRemU == Ran(IntTypes, "rem_u", rem_u(run.type, run.operands[1], run.operands[2]))

OpRemS == Ran(IntTypes, "rem_s", rem_s(run.type, run.operands[1], run.operands[2]))

OpRotl == Ran(IntTypes, "rotl", rotl(run.type, run.operands[1], run.operands[2]))

OpRotr == Ran(IntTypes, "rotr", rotr(run.type, run.operands[1], run.operands[2]))

OpShl == Ran(IntTypes, "shl", shl(run.type, run.operands[1], run.operands[2]))

OpShrS == Ran(IntTypes, "shr_s", shr_s(run.type, run.operands[1], run.operands[2]))

OpShrU == Ran(IntTypes, "shr_u", shr_u(run.type, run.operands[1], run.operands[2]))

OpI32TruncSF32 ==
    Ran({ "f32" }, "i32.trunc_s_f32", i32_trunc_s_f32(run.operands[1]))

OpI32TruncUF32 ==
    Ran({ "f32" }, "i32.trunc_u_f32", i32_trunc_u_f32(run.operands[1]))

NextNumeric ==
    \/ OpDivS \/ OpDivU \/ OpRemU \/ OpRemS
    \/ OpShl \/ OpShrS \/ OpShrU \/ OpRotl \/ OpRotr
    \/ OpI32TruncSF32 \/ OpI32TruncUF32

SpecNumeric == InitNumeric /\ [][NextNumeric]_vars
-----------------------------------------------------------------------------
(* The functions of a module, emitted.                                     *)
(* EmitModuleContext::emit creates one EmitFunctionContext per function    *)
(* definition and calls its emit(); every one of them holds a reference to *)
(* the module context. An emission is followed through its accesses to the *)
(* objects the module context holds: the debug-info builder, the LLVM      *)
(* module, and the __try_prologue function the Windows build creates on    *)
(* first use. The caller either emits the functions one after the other,   *)
(* as the loop of EmitModuleContext::emit does, or gives every emission a  *)
(* thread of its own. Two threads about to access one object, one of them  *)
(* to write it, are a data race; what a racing write leaves in the object, *)
(* and what a racing read returns, is undefined.                           *)
-----------------------------------------------------------------------------
MaxFunctionDefs == 2

FunctionDefs == 1 .. MaxFunctionDefs

\* What the body of a function definition holds: no try, or a try with a
\* catch.
FunctionBodies == { "plain", "try" }

\* EmitModuleContext's constructor and the head of EmitModuleContext::emit:
\* the module holds the personality function and one function per definition,
\* no debug info of a function exists, tryPrologueDummyFunction is nullptr (0).
EmitModuleContext(win32, concurrent, bodies) ==
    [ win32 |-> win32,
      concurrent |-> concurrent,
      functionDefs |-> bodies,
      pc |-> [ functionDefIndex \in DOMAIN bodies |-> "notStarted" ],
      diFunctions |-> << >>,
      llvmModule |-> << "personalityFunction" >>
                     \o [ functionDefIndex \in DOMAIN bodies |-> "functionDef" ],
      tryPrologueDummyFunction |-> 0,
      undefined |-> { } ]

\* The objects an emission at a given step is about to access, and how.
Accesses(step) ==
    CASE step = "createFunction" ->
             { [ object |-> "diBuilder", write |-> TRUE ] }
      [] step = "tryPrologue" ->
             { [ object |-> "tryPrologueDummyFunction", write |-> FALSE ] }
      [] step = "createTryPrologue" ->
             { [ object |-> "tryPrologueDummyFunction", write |-> TRUE ],
               [ object |-> "llvmModule", write |-> TRUE ] }
      [] step = "createSEHFilterFunction" ->
             { [ object |-> "llvmModule", write |-> TRUE ] }
      [] OTHER -> { }

\* The objects on which the emission of functionDefIndex races with another.
RacedObjects(m, functionDefIndex) ==
    { mine.object : mine \in
        { a \in Accesses(m.pc[functionDefIndex]) :
            \E other \in DOMAIN m.pc \ { functionDefIndex } :
                \E b \in Accesses(m.pc[other]) :
                    /\ a.object = b.object
                    /\ a.write \/ b.write } }

DataRace(m) == \E functionDefIndex \in DOMAIN m.pc : RacedObjects(m, functionDefIndex) # { }

\* A caller that waits for no emission before it starts another.
emitInAnyOrder(m, functionDefIndex) == TRUE

\* The loop of EmitModuleContext::emit calls emit() for a function when the
\* emit() of every function before it has returned.
emitInOrder(m, functionDefIndex) ==
    \A earlier \in 1 .. functionDefIndex - 1 : m.pc[earlier] = "done"

\* What the objects written by a step hold afterwards: what the write stored,
\* or, for an object written in a race, possibly anything.
AfterWrite(m, functionDefIndex, written) ==
    { [ written EXCEPT !.undefined = m.undefined \cup damaged ] :
        damaged \in SUBSET { object \in RacedObjects(m, functionDefIndex) :
                               [ object |-> object, write |-> TRUE ]
                                   \in Accesses(m.pc[functionDefIndex]) } }

\* The step after the debug info: the try of a body that has one.
AfterCreateFunction(m, functionDefIndex) ==
    IF m.functionDefs[functionDefIndex] = "try" /\ m.win32 THEN "tryPrologue" ELSE "done"

\* EmitFunctionContext::emit, debug info: createFunction adds the function's
\* subprogram to the debug info the module's builder holds.
createFunction(m, functionDefIndex) ==
    AfterWrite(m, functionDefIndex,
               [ m EXCEPT !.diFunctions = Append(@, functionDefIndex),
                          !.pc[functionDefIndex] = AfterCreateFunction(m, functionDefIndex) ])

\* try_ of the Windows build, the test of moduleContext.tryPrologueDummyFunction.
tryPrologue(m, functionDefIndex) ==
    LET null    == [ m EXCEPT !.pc[functionDefIndex] = "createTryPrologue" ]
        nonNull == [ m EXCEPT !.pc[functionDefIndex] = "createSEHFilterFunction" ]
    IN  IF RacedObjects(m, functionDefIndex) # { }
        THEN { null, nonNull }
        ELSE IF m.tryPrologueDummyFunction = 0 THEN { null } ELSE { nonNull }

\* try_ of the Windows build, the creation of __try_prologue in the module.
createTryPrologue(m, functionDefIndex) ==
    AfterWrite(m, functionDefIndex,
               [ m EXCEPT !.llvmModule = Append(@, "__try_prologue"),
                          !.tryPrologueDummyFunction = Len(m.llvmModule) + 1,
                          !.pc[functionDefIndex] = "createSEHFilterFunction" ])

\* catch_ of the Windows build: createSEHFilterFunction adds a function to the
\* module.
createSEHFilterFunction(m, functionDefIndex) ==
    AfterWrite(m, functionDefIndex,
               [ m EXCEPT !.llvmModule = Append(@, "sehFilter"),
                          !.pc[functionDefIndex] = "done" ])

InitModule ==
    /\ InitEmitter(NoType, << >>)
    /\ access = NoAccess(<< 0, 0 >>, << 0, 0 >>)
    /\ run = NoRun
    /\ sexp = NoSExp
    /\ \E win32 \in BOOLEAN : \E concurrent \in BOOLEAN :
       \E bodies \in [ FunctionDefs -> FunctionBodies ] :
           moduleContext = EmitModuleContext(win32, concurrent, bodies)

\* One step of the emission of one function.
Stepped(functionDefIndex, step, after) ==
    /\ functionDefIndex \in DOMAIN moduleContext.functionDefs
    /\ moduleContext.pc[functionDefIndex] = step
    /\ moduleContext' \in after
    /\ UNCHANGED << emitterVars, access, run, sexp >>

\* EmitFunctionContext(...).emit() is called.
EmitFunction ==
    \E functionDefIndex \in FunctionDefs :
        /\ moduleContext.concurrent \/ emitInOrder(moduleContext, functionDefIndex)
        /\ Stepped(functionDefIndex, "notStarted",
                   { [ moduleContext EXCEPT !.pc[functionDefIndex] = "createFunction" ] })

CreateFunction ==
    \E functionDefIndex \in FunctionDefs :
        Stepped(functionDefIndex, "createFunction",
                createFunction(moduleContext, functionDefIndex))

TryPrologue ==
    \E functionDefIndex \in FunctionDefs :
        Stepped(functionDefIndex, "tryPrologue",
                tryPrologue(moduleContext, functionDefIndex))

CreateTryPrologue ==
    \E functionDefIndex \in FunctionDefs :
        Stepped(functionDefIndex, "createTryPrologue",
                createTryPrologue(moduleContext, functionDefIndex))

CreateSEHFilterFunction ==
    \E functionDefIndex \in FunctionDefs :
        Stepped(functionDefIndex, "createSEHFilterFunction",
                createSEHFilterFunction(moduleContext, functionDefIndex))

NextModule ==
    \/ EmitFunction
    \/ CreateFunction
    \/ TryPrologue
    \/ CreateTryPrologue
    \/ CreateSEHFilterFunction

SpecModule == InitModule /\ [][NextModule]_vars
-----------------------------------------------------------------------------
(* S-expressions (Core/SExpressions.cpp).                                  *)
(* The input is a sequence of characters, each a string of length one; the *)
(* terminating NUL is what peek returns past its end. A uint64 is four     *)
(* limbs. A parsing function returns a record with the stream position     *)
(* `next` it leaves and `thrown`, the message of the FatalParseException   *)
(* it has thrown, or NoException. Loci are left out.                       *)
-----------------------------------------------------------------------------
NUL == ""

NoException == "none"

\* StreamState::peek
peek(string, next) == IF next > Len(string) THEN NUL ELSE string[next]

isWhitespace(c) == c \in { " ", "\t", "\r", "\n" }

DecimalDigits == { "0", "1", "2", "3", "4", "5", "6", "7", "8", "9" }

isDigit(c) == c \in DecimalDigits

isSymbolCharacter(c) ==
    ~isWhitespace(c) /\ c \notin { "(", ")", ";", "\"", "=" }

Hexits ==
    << "0", "1", "2", "3", "4", "5", "6", "7", "8", "9",
       "a", "b", "c", "d", "e", "f" >>

UpperHexits == << "A", "B", "C", "D", "E", "F" >>

\* parseHexit: the value of a hexit, -1 for any other character.
parseHexit(c) ==
    IF \E v \in DOMAIN Hexits : Hexits[v] = c
    THEN (CHOOSE v \in DOMAIN Hexits : Hexits[v] = c) - 1
    ELSE IF \E v \in DOMAIN UpperHexits : UpperHexits[v] = c
    THEN (CHOOSE v \in DOMAIN UpperHexits : UpperHexits[v] = c) + 9
    ELSE -1

\* advancePastNext that does not count parentheses.
RECURSIVE advancePastNextIgnoringParentheses(_, _, _, _)
advancePastNextIgnoringParentheses(string, next, c, parenthesesDepth) ==
    LET nextChar == peek(string, next)
    IN  IF nextChar = NUL THEN [ found |-> FALSE, next |-> next ]
        ELSE IF nextChar = c THEN [ found |-> TRUE, next |-> next + 1 ]
        ELSE advancePastNextIgnoringParentheses(string, next + 1, c, parenthesesDepth)

\* StreamState::advancePastNext, from the position next on: the position
\* after the first c outside nested parentheses, or the position of the NUL
\* or of the unmatched closing parenthesis that stopped the search.
RECURSIVE advancePastNext(_, _, _, _)
advancePastNext(string, next, c, parenthesesDepth) ==
    LET nextChar == peek(string, next)
    IN  IF nextChar = NUL THEN [ found |-> FALSE, next |-> next ]
        ELSE IF nextChar = c /\ parenthesesDepth = 0
        THEN [ found |-> TRUE, next |-> next + 1 ]
        ELSE IF nextChar = "("
        THEN advancePastNext(string, next + 1, c, parenthesesDepth + 1)
        ELSE IF nextChar = ")"
        THEN IF parenthesesDepth = 0 THEN [ found |-> FALSE, next |-> next ]
             ELSE advancePastNext(string, next + 1, c, parenthesesDepth - 1)
        ELSE advancePastNext(string, next + 1, c, parenthesesDepth)

\* ParseContext::parseKeyword: consume() throws on the NUL before the
\* character is compared; a mismatch restores the saved state.
parseKeyword(string, next, keyword) ==
    LET differs == { k \in DOMAIN keyword : peek(string, next + k - 1) # keyword[k] }
        first   == CHOOSE k \in differs : \A other \in differs : k <= other
    IN  IF differs = { }
        THEN [ matched |-> TRUE, next |-> next + Len(keyword), thrown |-> NoException ]
        ELSE IF peek(string, next + first - 1) = NUL
        THEN [ matched |-> FALSE, next |-> next + first - 1,
               thrown |-> "unexpected end of file" ]
        ELSE [ matched |-> FALSE, next |-> next, thrown |-> NoException ]

\* The first of two keywords that matches, as in parseKeyword(a) || parseKeyword(b).
parseEitherKeyword(string, next, a, b) ==
    LET first == parseKeyword(string, next, a)
    IN  IF first.matched \/ first.thrown # NoException THEN first
        ELSE parseKeyword(string, next, b)

\* A uint64 of a small number.
U64(n) == emitLiteralOf(n, 4)

\* value * factor + digit in 64 bits, and whether it overflowed them.
MulAdd(value, factor, digit) ==
    LET p1 == value[1] * factor + digit
        p2 == value[2] * factor + p1 \div Limb
        p3 == value[3] * factor + p2 \div Limb
        p4 == value[4] * factor + p3 \div Limb
    IN  [ value |-> << p1 % Limb, p2 % Limb, p3 % Limb, p4 % Limb >>,
          overflow |-> p4 \div Limb # 0 ]

\* ParseContext::parseHexInteger, the loop: outValue and the number of matched
\* characters so far; 0 matched characters and the saved state when the value
\* would overflow.
RECURSIVE parseHexIntegerFrom(_, _, _, _, _)
parseHexIntegerFrom(string, savedNext, next, outValue, numMatchedCharacters) ==
    LET hexit == parseHexit(peek(string, next))
    IN  IF hexit < 0
        THEN [ numMatchedCharacters |-> numMatchedCharacters, outValue |-> outValue,
               next |-> next ]
        ELSE IF outValue[4] >= Limb \div 16
        THEN [ numMatchedCharacters |-> 0, outValue |-> outValue, next |-> savedNext ]
        ELSE parseHexIntegerFrom(string, savedNext, next + 1,
                                 MulAdd(outValue, 16, hexit).value,
                                 numMatchedCharacters + 1)

parseHexInteger(string, next) == parseHexIntegerFrom(string, next, next, U64(0), 0)

\* isspace of the C locale
isspace(c) == isWhitespace(c)

\* The end of the longest run of characters in `digits` from next on.
RECURSIVE DigitsEnd(_, _, _)
DigitsEnd(string, next, digits) ==
    IF peek(string, next) \in digits THEN DigitsEnd(string, next + 1, digits) ELSE next

\* The end of the white space from next on.
RECURSIVE SpaceEnd(_, _)
SpaceEnd(string, next) ==
    IF isspace(peek(string, next)) THEN SpaceEnd(string, next + 1) ELSE next

\* The value of the digits of string in [from, to) in the given base, which
\* saturates at ULLONG_MAX with the range error set.
RECURSIVE DigitsValue(_, _, _, _, _)
DigitsValue(string, from, to, base, value) ==
    IF value.overflow THEN [ value |-> << Limb - 1, Limb - 1, Limb - 1, Limb - 1 >>,
                             overflow |-> TRUE ]
    ELSE IF from >= to THEN value
    ELSE DigitsValue(string, from + 1, to, base,
                     MulAdd(value.value, base, parseHexit(string[from])))

OctalDigits == { "0", "1", "2", "3", "4", "5", "6", "7" }

HexDigits == { Hexits[v] : v \in DOMAIN Hexits } \cup { UpperHexits[v] : v \in DOMAIN UpperHexits }

\* std::strtoull: white space, a sign, then the digits of the base (base 0:
\* 0x and hexits, or a leading 0 and octal digits, or decimal digits). `endPtr`
\* is next when nothing was converted; a value with a minus sign is negated
\* in 64 bits.
strtoull(string, next, base) ==
    LET start       == SpaceEnd(string, next)
        negative    == peek(string, start) = "-"
        digitsStart == IF peek(string, start) \in { "+", "-" } THEN start + 1 ELSE start
        hexPrefix   == /\ base \in { 0, 16 }
                       /\ peek(string, digitsStart) = "0"
                       /\ peek(string, digitsStart + 1) \in { "x", "X" }
                       /\ peek(string, digitsStart + 2) \in HexDigits
        actualBase  == IF base # 0 THEN base
                       ELSE IF hexPrefix THEN 16
                       ELSE IF peek(string, digitsStart) = "0" THEN 8 ELSE 10
        from        == IF hexPrefix THEN digitsStart + 2 ELSE digitsStart
        digits      == IF actualBase = 16 THEN HexDigits
                       ELSE IF actualBase = 8 THEN OctalDigits ELSE DecimalDigits
        to          == DigitsEnd(string, from, digits)
        converted   == DigitsValue(string, from, to, actualBase,
                                   [ value |-> U64(0), overflow |-> FALSE ])
    IN  IF to = from
        THEN [ endPtr |-> next, value |-> U64(0), erange |-> FALSE ]
        ELSE [ endPtr |-> to,
               value |-> IF negative /\ ~converted.overflow
                         THEN Negated(converted.value) ELSE converted.value,
               erange |-> converted.overflow ]

\* The letter c in lower case, for the letters strtod compares.
toLower(c) ==
    CASE c = "I" -> "i" [] c = "N" -> "n" [] c = "F" -> "f" [] c = "T" -> "t"
      [] c = "Y" -> "y" [] c = "A" -> "a" [] OTHER -> c

\* string holds word at next, letter case ignored.
HasWord(string, next, word) ==
    \A k \in DOMAIN word : toLower(peek(string, next + k - 1)) = word[k]

\* The end of an exponent part at next (marker in `letters`, sign, digits),
\* or next when there is none.
ExponentEnd(string, next, letters) ==
    LET digitsStart == IF peek(string, next + 1) \in { "+", "-" } THEN next + 2 ELSE next + 1
    IN  IF peek(string, next) \in letters /\ peek(string, digitsStart) \in DecimalDigits
        THEN DigitsEnd(string, digitsStart, DecimalDigits)
        ELSE next

\* The end of digits, a point and digits from next on, with at least one
\* digit either before or after the point; next when there is no digit.
MantissaEnd(string, next, digits) ==
    LET integerEnd  == DigitsEnd(string, next, digits)
        fractionEnd == IF peek(string, integerEnd) = "."
                       THEN DigitsEnd(string, integerEnd + 1, digits) ELSE integerEnd
    IN  IF integerEnd = next /\ fractionEnd <= integerEnd + 1 THEN next ELSE fractionEnd

\* std::strtod, the end of what it converts: white space, a sign, then
\* infinity or inf, nan with an optional (n-char-sequence), a hexadecimal or
\* a decimal floating constant. `endPtr` is next when nothing was converted.
strtodEnd(string, next) ==
    LET start    == SpaceEnd(string, next)
        from     == IF peek(string, start) \in { "+", "-" } THEN start + 1 ELSE start
        nanChars == DigitsEnd(string, from + 4, HexDigits \cup { "_" }
                                  \cup { "g", "h", "i", "j", "k", "l", "m", "n", "o", "p",
                                         "q", "r", "s", "t", "u", "v", "w", "x", "y", "z" })
        hexEnd   == MantissaEnd(string, from + 2, HexDigits)
        decEnd   == MantissaEnd(string, from, DecimalDigits)
    IN  IF HasWord(string, from, << "i", "n", "f", "i", "n", "i", "t", "y" >>) THEN from + 8
        ELSE IF HasWord(string, from, << "i", "n", "f" >>) THEN from + 3
        ELSE IF HasWord(string, from, << "n", "a", "n" >>)
        THEN IF peek(string, from + 3) = "(" /\ peek(string, nanChars) = ")"
             THEN nanChars + 1 ELSE from + 3
        ELSE IF /\ peek(string, from) = "0"
                /\ peek(string, from + 1) \in { "x", "X" }
                /\ hexEnd # from + 2
        THEN ExponentEnd(string, hexEnd, { "p", "P" })
        ELSE IF decEnd # from THEN ExponentEnd(string, decEnd, { "e", "E" })
        ELSE next

\* The characters of string in [from, to).
Chars(string, from, to) == [ k \in 1 .. to - from |-> string[from + k - 1] ]

\* The printable characters of ASCII, from the space (0x20) to ~ (0x7e); the
\* grave accent (0x60), which no string of TLA+ can hold, is spelled out.
Ascii ==
    << " ", "!", "\"", "#", "$", "%", "&", "'", "(", ")", "*", "+", ",", "-", ".", "/",
       "0", "1", "2", "3", "4", "5", "6", "7", "8", "9", ":", ";", "<", "=", ">", "?",
       "@", "A", "B", "C", "D", "E", "F", "G", "H", "I", "J", "K", "L", "M", "N", "O",
       "P", "Q", "R", "S", "T", "U", "V", "W", "X", "Y", "Z", "[", "\\", "]", "^", "_",
       "grave", "a", "b", "c", "d", "e", "f", "g", "h", "i", "j", "k", "l", "m", "n", "o",
       "p", "q", "r", "s", "t", "u", "v", "w", "x", "y", "z", "{", "|", "}", "~" >>

\* The byte of a character of the input.
Ord(c) ==
    CASE c = "\n" -> 10
      [] c = "\t" -> 9
      [] c = "\r" -> 13
      [] OTHER -> (CHOOSE k \in DOMAIN Ascii : Ascii[k] = c) + 31

\* The builds that differ in what undefined arithmetic does: the shift count
\* taken modulo 64 and the negation wrapping, or the program stopped.
Builds == { "wrapping", "trapping" }

\* What stands for an exception in `thrown` when the program was stopped, and
\* when the function never returns.
Aborted == "aborted"

NeverReturns == "never returns"

NoF64 == [ sign |-> 0, exponent |-> 0, significand |-> << >>, text |-> << >> ]

\* Floats::F64Components::bits
F64Bits(sign, exponent, significand) ==
    [ sign |-> sign, exponent |-> exponent,
      significand |-> [ significand EXCEPT ![4] = @ % 16 ], text |-> << >> ]

\* A Node: the children are the nodes linked through nextSibling from
\* `children`; string holds characters for a symbol and bytes for a string.
Node(type) ==
    [ type |-> type, children |-> << >>, string |-> << >>, error |-> "",
      symbol |-> 0, i64 |-> << >>, f64 |-> NoF64 ]

\* nullptr
NullNode == Node("nullptr")

\* What a parsing function returns: the node, the stream position, and the
\* exception thrown instead.
Parsed(node, next) == [ node |-> node, next |-> next, thrown |-> NoException ]

Thrown(next, message) == [ node |-> NullNode, next |-> next, thrown |-> message ]

\* ParseContext::createError
createError(message) == [ Node("Error") EXCEPT !.error = message ]

\* ParseContext::parseCharEscapeCode
parseCharEscapeCode(string, next) ==
    LET c           == peek(string, next)
        firstValue  == parseHexit(c)
        secondValue == parseHexit(peek(string, next + 1))
    IN  IF c \in { "n", "t", "\\", "'", "\"" }
        THEN [ ok |-> TRUE, next |-> next,
               outCharacter |-> CASE c = "n" -> 10 [] c = "t" -> 9 [] OTHER -> Ord(c) ]
        ELSE IF firstValue < 0 THEN [ ok |-> FALSE, next |-> next, outCharacter |-> 0 ]
        ELSE IF secondValue < 0 THEN [ ok |-> FALSE, next |-> next + 1, outCharacter |-> 0 ]
        ELSE [ ok |-> TRUE, next |-> next + 1,
               outCharacter |-> firstValue * 16 + secondValue ]

\* ParseContext::parseQuotedString, the loop after the opening quote.
RECURSIVE parseQuotedStringFrom(_, _, _)
parseQuotedStringFrom(string, next, bytes) ==
    LET nextChar == peek(string, next)
        escaped  == parseCharEscapeCode(string, next + 1)
    IN  IF nextChar = "\n" \/ nextChar = NUL
        THEN Parsed(createError("unexpected newline or end of file in quoted string"),
                    advancePastNext(string, next, "\"", 0).next)
        ELSE IF nextChar = "\\"
        THEN IF ~escaped.ok
             THEN Parsed(createError("invalid escape code in quoted string"),
                         advancePastNext(string, escaped.next, "\"", 0).next)
             ELSE parseQuotedStringFrom(string, escaped.next + 1,
                                        Append(bytes, escaped.outCharacter))
        ELSE IF nextChar = "\""
        THEN Parsed([ Node("String") EXCEPT !.string = bytes ], next + 1)
        ELSE parseQuotedStringFrom(string, next + 1, Append(bytes, Ord(nextChar)))

parseQuotedString(string, next) == parseQuotedStringFrom(string, next + 1, << >>)

\* 1ull << 51
QuietNaNSignificand == << 0, 0, 0, 8 >>

FloatNode(f64) == [ Node("Float") EXCEPT !.f64 = f64 ]

\* ParseContext::parseNaN
parseNaN(string, next, isNegative) ==
    LET sign        == IF isNegative THEN 1 ELSE 0
        prefix      == parseKeyword(string, next + 1, << "0", "x" >>)
        significand == parseHexInteger(string, prefix.next)
        closing     == peek(string, significand.next)
    IN  IF peek(string, next) # "("
        THEN Parsed(FloatNode(F64Bits(sign, 2047, QuietNaNSignificand)), next)
        ELSE IF prefix.thrown # NoException THEN Thrown(prefix.next, prefix.thrown)
        ELSE IF ~prefix.matched
        THEN Parsed(createError("expected hexadecimal NaN significand"),
                    advancePastNext(string, prefix.next, ")", 0).next)
        ELSE IF significand.numMatchedCharacters = 0
        THEN Parsed(createError("expected hexadecimal NaN significand"), significand.next)
        ELSE IF IsZero(significand.outValue)
        THEN Parsed(createError("NaN significand must be non-zero"), significand.next)
        ELSE IF closing = NUL THEN Thrown(significand.next, "unexpected end of file")
        ELSE IF closing # ")"
        THEN Parsed(createError("expected ')'"), significand.next + 1)
        ELSE Parsed(FloatNode(F64Bits(sign, 2047, significand.outValue)),
                    significand.next + 1)

\* ParseContext::parseInfinity
parseInfinity(string, next, isNegative) ==
    Parsed(FloatNode(F64Bits(IF isNegative THEN 1 ELSE 0, 2047, U64(0))), next)

\* An integer node: SignedInt with the negated value for a negative number,
\* UnsignedInt otherwise. The negation of INT64_MIN overflows.
IntNode(isNegative, value) ==
    [ Node(IF isNegative THEN "SignedInt" ELSE "UnsignedInt")
        EXCEPT !.i64 = IF isNegative THEN Negated(value) ELSE value ]

NegationOverflows(isNegative, value) ==
    isNegative /\ value = << 0, 0, 0, Limb \div 2 >>

\* The exponent as an int64 the code compares with -1022 and 1023: its value
\* when that is in -2000 .. 2000, and 2001 or -2001 beyond.
Int64Clamped(value) ==
    IF IsNegative(value)
    THEN IF value[2] = Limb - 1 /\ value[3] = Limb - 1 /\ value[4] = Limb - 1
            /\ value[1] >= Limb - 2000
         THEN value[1] - Limb ELSE 0 - 2001
    ELSE IF value[2] = 0 /\ value[3] = 0 /\ value[4] = 0 /\ value[1] <= 2000
         THEN value[1] ELSE 2001

\* fractionalPart <<= 52 - numFractionalHexits * 4, the count computed in
\* uint64: with more than 13 hexits it is 2^64 - 4, - 8 or - 12, and the
\* shift undefined; the wrapping build shifts by the count modulo 64.
ShiftedFraction(fractionalPart, numFractionalHexits) ==
    ShiftedBy("shl", fractionalPart, (52 + 64 - numFractionalHexits * 4) % 64)

\* ParseContext::parseHexNumber
parseHexNumber(string, next, isNegative, build) ==
    LET integer  == parseHexInteger(string, next)
        point    == parseKeyword(string, integer.next, << "." >>)
        fraction == IF point.matched THEN parseHexInteger(string, point.next)
                    ELSE [ numMatchedCharacters |-> 0, outValue |-> U64(0),
                           next |-> point.next ]
        hasDecimalPoint == point.matched
        fractionalPart  == IF point.matched
                           THEN ShiftedFraction(fraction.outValue,
                                                fraction.numMatchedCharacters)
                           ELSE U64(0)
        marker   == parseEitherKeyword(string, fraction.next, << "p" >>, << "P" >>)
        hasExponent == marker.matched
        isExponentNegative == peek(string, marker.next) = "-"
        digits   == IF peek(string, marker.next) \in { "-", "+" }
                    THEN marker.next + 1 ELSE marker.next
        unsignedExponent == strtoull(string, digits, 10)
        exponent == IF ~hasExponent THEN 0
                    ELSE IF isExponentNegative
                    THEN Int64Clamped(Negated(unsignedExponent.value))
                    ELSE Int64Clamped(unsignedExponent.value)
        endNext  == IF hasExponent THEN unsignedExponent.endPtr ELSE marker.next
        sign     == IF isNegative THEN 1 ELSE 0
    IN  IF integer.numMatchedCharacters = 0
        THEN Parsed(createError("expected hex digits"), integer.next)
        ELSE IF point.thrown # NoException THEN Thrown(point.next, point.thrown)
        ELSE IF hasDecimalPoint /\ fraction.numMatchedCharacters > 13 /\ build = "trapping"
        THEN Thrown(fraction.next, Aborted)
        ELSE IF marker.thrown # NoException THEN Thrown(marker.next, marker.thrown)
        ELSE IF hasExponent /\ (unsignedExponent.endPtr = digits \/ unsignedExponent.erange)
        THEN Parsed(createError("expected exponent decimal"), digits)
        ELSE IF /\ hasExponent /\ isExponentNegative /\ build = "trapping"
                /\ NegationOverflows(TRUE, unsignedExponent.value)
        THEN Thrown(endNext, Aborted)
        ELSE IF exponent < 0 - 1022 \/ exponent > 1023
        THEN Parsed(createError("exponent must be between -1022 and +1023"), endNext)
        ELSE IF /\ IsZero(fractionalPart)
                /\ exponent = 0
                /\ ~(isNegative /\ IsZero(integer.outValue)
                     /\ (hasDecimalPoint \/ hasExponent))
        THEN IF build = "trapping" /\ NegationOverflows(isNegative, integer.outValue)
             THEN Thrown(endNext, Aborted)
             ELSE Parsed(IntNode(isNegative, integer.outValue), endNext)
        ELSE IF IsZero(integer.outValue) /\ IsZero(fractionalPart)
        THEN Parsed(FloatNode(F64Bits(sign, 0, U64(0))), endNext)
        ELSE IF IsZero(integer.outValue) /\ exponent # 0 - 1022
        THEN Parsed(createError("exponent on subnormal hexadecimal float must be -1022"),
                    endNext)
        ELSE IF ~IsZero(integer.outValue) /\ integer.outValue # U64(1)
        THEN Parsed(createError("hexadecimal float must start with 0x1. or 0x0."), endNext)
        ELSE Parsed(FloatNode(F64Bits(sign,
                                      (IF IsZero(integer.outValue)
                                       THEN 0 - 1023 ELSE exponent) + 1023,
                                      fractionalPart)),
                    endNext)

\* A float node of the decimal branch: what strtod converted is kept as text.
DecimalFloatNode(isNegative, text) ==
    FloatNode([ NoF64 EXCEPT !.sign = IF isNegative THEN 1 ELSE 0, !.text = text ])

\* ParseContext::parseNumber
parseNumber(string, next, build) ==
    LET signed     == peek(string, next) \in { "-", "+" }
        isNegative == peek(string, next) = "-"
        start      == IF signed THEN next + 1 ELSE next
        nan        == parseKeyword(string, start, << "n", "a", "n" >>)
        infinity   == parseKeyword(string, start,
                                   << "i", "n", "f", "i", "n", "i", "t", "y" >>)
        hex        == parseEitherKeyword(string, start, << "0", "x" >>, << "0", "X" >>)
        f64End     == strtodEnd(string, start)
        i64        == strtoull(string, start, 0)
    IN  IF nan.thrown # NoException THEN Thrown(nan.next, nan.thrown)
        ELSE IF nan.matched THEN parseNaN(string, nan.next, isNegative)
        ELSE IF infinity.thrown # NoException THEN Thrown(infinity.next, infinity.thrown)
        ELSE IF infinity.matched THEN parseInfinity(string, infinity.next, isNegative)
        ELSE IF hex.thrown # NoException THEN Thrown(hex.next, hex.thrown)
        ELSE IF hex.matched THEN parseHexNumber(string, hex.next, isNegative, build)
        ELSE IF f64End > i64.endPtr
        THEN Parsed(DecimalFloatNode(isNegative, Chars(string, start, f64End)), f64End)
        ELSE IF build = "trapping" /\ NegationOverflows(isNegative, i64.value)
        THEN Thrown(i64.endPtr, Aborted)
        ELSE Parsed(IntNode(isNegative, i64.value), i64.endPtr)

\* The end of the symbol characters from next on; the NUL is one of them.
RECURSIVE SymbolEnd(_, _)
SymbolEnd(string, next) ==
    IF peek(string, next) # NUL /\ isSymbolCharacter(peek(string, next))
    THEN SymbolEnd(string, next + 1) ELSE next

\* The end of a line comment: the position of the newline or NUL.
RECURSIVE LineEnd(_, _)
LineEnd(string, next) ==
    IF peek(string, next) \in { "\n", NUL } THEN next ELSE LineEnd(string, next + 1)

\* The end of a block comment whose ; is at next: the position after its
\* closing parenthesis, or 0 when the end of the input is reached first.
RECURSIVE BlockCommentEnd(_, _)
BlockCommentEnd(string, next) ==
    LET past == advancePastNext(string, next, ";", 0)
    IN  IF ~past.found THEN 0
        ELSE IF peek(string, past.next) = ")" THEN past.next + 1
        ELSE BlockCommentEnd(string, past.next)

\* The symbol, or the attribute the = after it makes of it.
SymbolNode(characters, symbolStrings) ==
    IF \E index \in DOMAIN symbolStrings : symbolStrings[index] = characters
    THEN [ Node("Symbol") EXCEPT
             !.symbol = (CHOOSE index \in DOMAIN symbolStrings :
                             symbolStrings[index] = characters) - 1 ]
    ELSE [ Node("UnindexedSymbol") EXCEPT !.string = characters ]

RECURSIVE parseNode(_, _, _, _)
RECURSIVE parseNodeSequenceFrom(_, _, _, _, _)
RECURSIVE linkNode(_, _, _, _, _, _)

\* The attribute node of a symbol and the value parsed after its =.
AttributeNode(symbolNode, value) ==
    IF value.thrown # NoException THEN value
    ELSE Parsed([ Node("Attribute") EXCEPT
                    !.children = IF value.node = NullNode THEN << symbolNode >>
                                 ELSE << symbolNode, value.node >> ],
                value.next)

\* ParseContext::parseAttribute
parseAttribute(string, next, symbolNode, symbolStrings, build) ==
    AttributeNode(symbolNode, parseNode(string, next + 1, symbolStrings, build))

\* ParseContext::parseSymbol
parseSymbol(string, next, symbolStrings, build) ==
    LET endNext    == SymbolEnd(string, next + 1)
        characters == Chars(string, next, endNext)
        symbolNode == SymbolNode(characters, symbolStrings)
    IN  IF peek(string, endNext) = NUL THEN Thrown(endNext, "unexpected end of file")
        ELSE IF characters = << "n", "a", "n" >> THEN parseNaN(string, endNext, FALSE)
        ELSE IF characters = << "i", "n", "f", "i", "n", "i", "t", "y" >>
        THEN parseInfinity(string, endNext, FALSE)
        ELSE IF peek(string, endNext) = "="
        THEN parseAttribute(string, endNext, symbolNode, symbolStrings, build)
        ELSE Parsed(symbolNode, endNext)

\* The subtree of the child nodes parsed after its opening parenthesis.
TreeNode(string, children) ==
    IF children.thrown # NoException THEN Thrown(children.next, children.thrown)
    ELSE IF peek(string, children.next) # ")"
    THEN Thrown(children.next,
                "expected ')' following S-expression child nodes but found '('")
    ELSE Parsed([ Node("Tree") EXCEPT !.children = children.nodes ], children.next + 1)

\* ParseContext::parseNode
parseNode(string, next, symbolStrings, build) ==
    LET nextChar   == peek(string, next)
        commentEnd == BlockCommentEnd(string, next + 1)
    IN  IF nextChar = NUL THEN Parsed(NullNode, next)
        ELSE IF isWhitespace(nextChar) THEN parseNode(string, next + 1, symbolStrings, build)
        ELSE IF nextChar = ";"
        THEN IF peek(string, next + 1) # ";"
             THEN Thrown(next + 1, "expected ';' following ';' but found ';'")
             ELSE parseNode(string, LineEnd(string, next + 1), symbolStrings, build)
        ELSE IF nextChar = "("
        THEN IF peek(string, next + 1) = ";"
             THEN IF commentEnd = 0
                  THEN Thrown(Len(string) + 1,
                              "reached end of file while parsing block comment")
                  ELSE parseNode(string, commentEnd, symbolStrings, build)
             ELSE TreeNode(string, parseNodeSequenceFrom(string, next + 1, << >>,
                                                         symbolStrings, build))
        ELSE IF nextChar = "\"" THEN parseQuotedString(string, next)
        ELSE IF isDigit(nextChar) \/ nextChar \in { "+", "-", "." }
        THEN parseNumber(string, next, build)
        ELSE IF isSymbolCharacter(nextChar)
        THEN parseSymbol(string, next, symbolStrings, build)
        ELSE Parsed(NullNode, next)

\* ParseContext::parseNodeSequence: the nodes linked so far. A node parsed
\* without the stream having advanced is parsed again, for ever.
\* ParseContext::parseNodeSequence, from the node parseNode returned on.
linkNode(string, next, nodes, symbolStrings, build, parsed) ==
    IF parsed.thrown # NoException
    THEN [ nodes |-> nodes, next |-> parsed.next, thrown |-> parsed.thrown ]
    ELSE IF parsed.node = NullNode
    THEN [ nodes |-> nodes, next |-> parsed.next, thrown |-> NoException ]
    ELSE IF parsed.next = next
    THEN [ nodes |-> nodes, next |-> next, thrown |-> NeverReturns ]
    ELSE parseNodeSequenceFrom(string, parsed.next, Append(nodes, parsed.node),
                               symbolStrings, build)

parseNodeSequenceFrom(string, next, nodes, symbolStrings, build) ==
    linkNode(string, next, nodes, symbolStrings, build,
             parseNode(string, next, symbolStrings, build))

parseNodeSequence(string, next, symbolStrings, build) ==
    parseNodeSequenceFrom(string, next, << >>, symbolStrings, build)

\* SExp::parse: the nodes linked from the node it returns; a
\* FatalParseException is caught and an error node returned in their place.
\* `returned` is false when the call does not come back; `discarded` are the
\* root nodes linked before the exception, which the caller does not get.
\* SExp::parse, from the return of parseNodeSequence on.
Caught(sequence) ==
    IF sequence.thrown = NoException
    THEN [ returned |-> TRUE, nodes |-> sequence.nodes, discarded |-> << >>,
           next |-> sequence.next, thrown |-> NoException ]
    ELSE IF sequence.thrown \in { Aborted, NeverReturns }
    THEN [ returned |-> FALSE, nodes |-> << >>, discarded |-> sequence.nodes,
           next |-> sequence.next, thrown |-> sequence.thrown ]
    ELSE [ returned |-> TRUE, nodes |-> << createError(sequence.thrown) >>,
           discarded |-> sequence.nodes, next |-> sequence.next,
           thrown |-> sequence.thrown ]

parse(string, symbolStrings, build) ==
    Caught(parseNodeSequence(string, 1, symbolStrings, build))

\* nibbleToHexChar
nibbleToHexChar(value) == Hexits[value + 1]

\* SExp::escapeString, one character of it.
escapeChar(c) ==
    IF c = 92 THEN << "\\", "\\" >>
    ELSE IF c = 34 THEN << "\\", "\"" >>
    ELSE IF c = 10 THEN << "\\", "n" >>
    ELSE IF c < 32 \/ c > 126
    THEN << "\\", nibbleToHexChar(c \div 16), nibbleToHexChar(c % 16) >>
    ELSE << Ascii[c - 31] >>

\* SExp::escapeString
RECURSIVE escapeString(_)
escapeString(bytes) ==
    IF bytes = << >> THEN << >>
    ELSE escapeChar(Head(bytes)) \o escapeString(Tail(bytes))

\* A uint64 divided by ten: quotient and remainder.
DivMod10(value) ==
    LET c4 == value[4]
        c3 == (c4 % 10) * Limb + value[3]
        c2 == (c3 % 10) * Limb + value[2]
        c1 == (c2 % 10) * Limb + value[1]
    IN  [ quotient |-> << c1 \div 10, c2 \div 10, c3 \div 10, c4 \div 10 >>,
          remainder |-> c1 % 10 ]

\* std::to_string of an unsigned 64-bit value.
RECURSIVE to_string_u64(_)
to_string_u64(value) ==
    LET divided == DivMod10(value)
    IN  IF IsZero(divided.quotient) THEN << Hexits[divided.remainder + 1] >>
        ELSE Append(to_string_u64(divided.quotient), Hexits[divided.remainder + 1])

\* std::to_string of a signed 64-bit value.
to_string_i64(value) ==
    IF IsNegative(value) THEN << "-" >> \o to_string_u64(Negated(value))
    ELSE to_string_u64(value)

\* What a printing function returns: the string and whether a subtree was
\* printed on several lines; `returned` is false when it dereferenced
\* nullptr or failed its assertion, and the program was stopped.
Printed(string, isMultiLine) ==
    [ returned |-> TRUE, string |-> string, isMultiLine |-> isMultiLine ]

NotPrinted == [ returned |-> FALSE, string |-> << >>, isMultiLine |-> FALSE ]

\* The sum of the lengths of the printed children.
RECURSIVE totalChildLength(_)
totalChildLength(childStrings) ==
    IF childStrings = << >> THEN 0
    ELSE Len(Head(childStrings).string) + totalChildLength(Tail(childStrings))

\* The children joined by the separator.
RECURSIVE Joined(_, _)
Joined(childStrings, separator) ==
    IF Len(childStrings) = 1 THEN Head(childStrings).string
    ELSE Head(childStrings).string \o separator \o Joined(Tail(childStrings), separator)

RECURSIVE printNode(_, _, _)

\* SExp::printRecursive, the strings of the nodes joined: the do-while loop
\* reads initialNode->type before it tests the node, so an empty list of nodes
\* is a dereference of nullptr.
printChildren(childStrings, newline, isMultiLine) ==
    IF childStrings = << >> THEN NotPrinted
    ELSE IF \E k \in DOMAIN childStrings : ~childStrings[k].returned THEN NotPrinted
    ELSE Printed(Joined(childStrings, IF isMultiLine THEN newline ELSE << " " >>),
                 isMultiLine)

\* hasMultiLineSubtree || totalChildLength > 120
IsMultiLine(childStrings) ==
    \/ \E k \in DOMAIN childStrings : childStrings[k].isMultiLine
    \/ totalChildLength(childStrings) > 120

\* SExp::printRecursive, from the strings of the nodes on.
printAll(childStrings, newline) ==
    printChildren(childStrings, newline, IsMultiLine(childStrings))

\* SExp::printRecursive
printRecursive(nodes, symbolStrings, newline) ==
    printAll([ k \in DOMAIN nodes |-> printNode(nodes[k], symbolStrings, newline) ],
             newline)

\* SExp::printNode of a tree, from the string of its children on.
printTree(subtree, newline) ==
    IF ~subtree.returned THEN NotPrinted
    ELSE Printed(<< "(" >> \o subtree.string
                     \o (IF subtree.isMultiLine THEN newline ELSE << >>)
                     \o << ")" >>,
                 subtree.isMultiLine)

\* SExp::printNode of an attribute, from the strings of its two children on.
printAttribute(name, value) ==
    IF ~name.returned \/ ~value.returned THEN NotPrinted
    ELSE Printed(name.string \o << "=" >> \o value.string,
                 name.isMultiLine \/ value.isMultiLine)

\* SExp::printNode. Floats::asString is not part of the sources: a float is
\* printed as the word f64. An attribute without a value fails the assertion.
printNode(node, symbolStrings, newline) ==
        CASE node.type = "Tree" ->
               printTree(printRecursive(node.children, symbolStrings,
                                        Append(newline, "\t")),
                         newline)
          [] node.type = "Attribute" ->
               IF Len(node.children) < 2 THEN NotPrinted
               ELSE printAttribute(printNode(node.children[1], symbolStrings, newline),
                                   printNode(node.children[2], symbolStrings, newline))
          [] node.type = "Symbol" -> Printed(symbolStrings[node.symbol + 1], FALSE)
          [] node.type = "UnindexedSymbol" -> Printed(node.string, FALSE)
          [] node.type = "String" ->
               Printed(<< "\"" >> \o escapeString(node.string) \o << "\"" >>, FALSE)
          [] node.type = "Error" -> Printed(<< node.error >>, FALSE)
          [] node.type = "SignedInt" -> Printed(to_string_i64(node.i64), FALSE)
          [] node.type = "UnsignedInt" -> Printed(to_string_u64(node.i64), FALSE)
          [] node.type = "Float" -> Printed(<< "f", "6", "4" >>, FALSE)

\* SExp::print
print(rootNodes, symbolStrings) == printRecursive(rootNodes, symbolStrings, << "\n" >>)
-----------------------------------------------------------------------------
(* Strings parsed, printed and parsed again.                               *)
(* The strings are made of at most MaxTokens pieces, chosen to hold every  *)
(* kind of node but a float, comments, and what is malformed in each way.  *)
-----------------------------------------------------------------------------
MaxTokens == 3

\* The symbols of the index map, which is also the table print is given.
SymbolStrings == << << "a" >> >>

Tokens ==
    { << "(" >>, << ")" >>, << " " >>, << "a" >>, << "b", "=" >>, << "(", ")" >>,
      << "-", "0" >>, << "-", "5" >>, << "1", "2" >>,
      << "\"", "c", "\t", "\\", "n", "\\", "4", "1", "\"" >>,
      << "\"" >>, << ";" >>, << "(", ";" >>, << "." >> }

\* The strings of at most n tokens.
RECURSIVE TokenStrings(_)
TokenStrings(n) ==
    IF n = 0 THEN { << >> }
    ELSE LET shorter == TokenStrings(n - 1)
         IN  shorter \cup { string \o token : string \in shorter, token \in Tokens }

NotParsed ==
    [ returned |-> FALSE, nodes |-> << >>, discarded |-> << >>, next |-> 0,
      thrown |-> NoException ]

\* The parts of the literal a string was made of; none for other strings.
NoLiteral ==
    [ sign |-> << >>, integerPart |-> << >>, fraction |-> << >>,
      exponent |-> [ text |-> << >>, value |-> 0 ] ]

\* A string handed to SExp::parse by a caller.
Given(string, build) ==
    [ string |-> string, symbolStrings |-> SymbolStrings, build |-> build,
      stage |-> "given", tree |-> NotParsed, printed |-> NotPrinted,
      reparsed |-> NotParsed, literal |-> NoLiteral ]

InitSExp(strings) ==
    /\ InitEmitter(NoType, << >>)
    /\ access = NoAccess(<< 0, 0 >>, << 0, 0 >>)
    /\ run = NoRun
    /\ moduleContext = NoModuleContext
    /\ \E string \in strings : \E build \in Builds : sexp = Given(string, build)

InitParse == InitSExp(TokenStrings(MaxTokens))

\* One call on the string or on what the call before made of it.
Called(stage, after) ==
    /\ sexp.stage = stage
    /\ sexp' = after
    /\ UNCHANGED << emitterVars, access, run, moduleContext >>

\* SExp::parse(string, arena, symbolIndexMap)
ParseString ==
    Called("given",
           [ sexp EXCEPT !.stage = "parsed",
                         !.tree = parse(sexp.string, sexp.symbolStrings, sexp.build) ])

\* SExp::print(rootNode, symbolStrings) on the tree parse returned
PrintTree ==
    /\ sexp.tree.returned
    /\ Called("parsed",
              [ sexp EXCEPT !.stage = "printed",
                            !.printed = print(sexp.tree.nodes, sexp.symbolStrings) ])

\* SExp::parse on the string print returned
ParseAgain ==
    /\ sexp.printed.returned
    /\ Called("printed",
              [ sexp EXCEPT !.stage = "reparsed",
                            !.reparsed = parse(sexp.printed.string, sexp.symbolStrings,
                                               sexp.build) ])

NextParse == ParseString \/ PrintTree \/ ParseAgain

SpecParse == InitParse /\ [][NextParse]_vars
-----------------------------------------------------------------------------
(* Hexadecimal number literals, parsed.                                    *)
(* A literal is a sign, 0x, an integer part, a point, the hexits of the    *)
(* fraction, p and a decimal exponent. The fractions have from no to 17    *)
(* hexits, the exponents lie on both sides of -1022 and 1023.              *)
-----------------------------------------------------------------------------
\* n copies of the character c.
Repeated(c, n) == [ k \in 1 .. n |-> c ]

LiteralSigns == { << >>, << "-" >> }

LiteralIntegerParts == { << "0" >>, << "1" >>, << "2" >> }

LiteralFractions ==
    { << >>, << "0" >>, << "8" >>, << "4", "c" >>,
      Repeated("f", 13), Append(Repeated("0", 12), "1"),
      Append(Repeated("0", 13), "8"), Repeated("f", 14), Repeated("1", 16),
      << "1" >> \o Repeated("0", 16) }

LiteralExponents ==
    { [ text |-> << "0" >>, value |-> 0 ],
      [ text |-> << "+", "1" >>, value |-> 1 ],
      [ text |-> << "5" >>, value |-> 5 ],
      [ text |-> << "-", "1" >>, value |-> 0 - 1 ],
      [ text |-> << "-", "1", "0", "2", "2" >>, value |-> 0 - 1022 ],
      [ text |-> << "-", "1", "0", "2", "3" >>, value |-> 0 - 1023 ],
      [ text |-> << "1", "0", "2", "3" >>, value |-> 1023 ],
      [ text |-> << "1", "0", "2", "4" >>, value |-> 1024 ] }

HexLiterals ==
    [ sign : LiteralSigns, integerPart : LiteralIntegerParts,
      fraction : LiteralFractions, exponent : LiteralExponents ]

LiteralString(literal) ==
    literal.sign \o << "0", "x" >> \o literal.integerPart \o << "." >>
        \o literal.fraction \o << "p" >> \o literal.exponent.text

InitHexFloat ==
    /\ InitEmitter(NoType, << >>)
    /\ access = NoAccess(<< 0, 0 >>, << 0, 0 >>)
    /\ run = NoRun
    /\ moduleContext = NoModuleContext
    /\ \E literal \in HexLiterals : \E build \in Builds :
           sexp = [ Given(LiteralString(literal), build) EXCEPT !.literal = literal ]

NextHexFloat == ParseString

SpecHexFloat == InitHexFloat /\ [][NextHexFloat]_vars
-----------------------------------------------------------------------------
(* The emitted function, run.                                              *)
(* A value is << n >>, or << >> when it is undefined.  A local is read as  *)
(* the argument it was initialised with: the bodies that are run store to  *)
(* no local.                                                               *)

Undef == << >>

RECURSIVE Eval(_, _, _)
Eval(v, env, args) ==
    LET operand == IF v.a = << >> THEN Undef ELSE Eval(v.a[1], env, args)
    IN  CASE v.op = "const" -> << v.n >>
          [] v.op = "zero" -> << 0 >>
          [] v.op = "local" -> IF v.n < Len(args) THEN << args[v.n + 1] >> ELSE Undef
          [] v.op = "phi" -> env[v.n]
          [] v.op = "bitcast" -> operand
          [] v.op = "eqz" ->
                IF operand = Undef THEN Undef
                ELSE IF operand[1] = 0 THEN << 1 >> ELSE << 0 >>
          [] v.op = "ne0" ->
                IF operand = Undef THEN Undef
                ELSE IF operand[1] # 0 THEN << 1 >> ELSE << 0 >>
          [] OTHER -> Undef

\* The value phi p takes when its block is entered from pred.
PhiIn(ps, p, pred, env, args) ==
    LET from == SelectSeq(ps[p].incoming, LAMBDA in : in.from = pred)
    IN  IF Len(from) = 1 \/ (Len(from) > 1 /\ \A i \in DOMAIN from : from[i] = from[1])
        THEN Eval(from[1].val, env, args)
        ELSE Undef

\* Runs the function from the entry of `blk`, reached from `pred`.
RECURSIVE Exec(_, _, _, _, _, _, _)
Exec(ps, ts, blk, pred, env, args, fuel) ==
    LET env1 == [ p \in DOMAIN ps |->
                    IF ps[p].block = blk /\ ~ps[p].erased
                    THEN PhiIn(ps, p, pred, env, args)
                    ELSE env[p] ]
        t == ts[blk]
        cond == IF t.cond = << >> THEN Undef ELSE Eval(t.cond[1], env1, args)
        stop(kind) == [ kind |-> kind, values |-> << >> ]
        go(target) == Exec(ps, ts, target, blk, env1, args, fuel - 1)
    IN  IF fuel = 0 THEN stop("diverges")
        ELSE CASE t.kind = "br" -> go(t.targets[1])
               [] t.kind = "condbr" ->
                     IF cond = Undef THEN stop("undefined")
                     ELSE go(IF cond[1] # 0 THEN t.targets[1] ELSE t.targets[2])
               [] t.kind = "switch" ->
                     IF cond = Undef THEN stop("undefined")
                     ELSE go(IF cond[1] + 2 <= Len(t.targets)
                             THEN t.targets[cond[1] + 2]
                             ELSE t.targets[1])
               [] t.kind = "ret" ->
                     [ kind   |-> "return",
                       values |-> [ i \in DOMAIN t.cond |->
                                       Eval(t.cond[i], env1, args) ] ]
               [] t.kind = "unreachable" -> stop("trap")
               [] OTHER -> stop("malformed")

\* The outcome of a call of the emitted function.
Call(args) ==
    Exec(phis, terms, EntryBlock, NoBlock, [ p \in DOMAIN phis |-> Undef ], args,
         Len(terms))

\* The function returns exactly these values.
Returns(args, values) ==
    Call(args) = [ kind |-> "return", values |-> [ i \in DOMAIN values |-> << values[i] >> ] ]

Arguments == { 0, 5 }

-----------------------------------------------------------------------------
(* Properties. *)

\* A step of the operator loop: an operator was decoded.
Decoded == numOps' = numOps + 1

\* A step in which a method of the emitter handled the operator `code`.
Emitted(code) ==
    /\ Decoded
    /\ lastOp'.op.code = code
    /\ lastOp'.by \in { "emitter", "forwarded" }

\* The number of incoming values of phi p that come from block x.
IncomingFrom(p, x) ==
    Cardinality({ i \in DOMAIN phis[p].incoming : phis[p].incoming[i].from = x })

\* Every phi has one incoming value per edge into its block: a block that a
\* switch names twice is its predecessor twice.
PhiConsistent ==
    \A p \in DOMAIN phis :
        ~phis[p].erased =>
            \A x \in DOMAIN terms :
                IncomingFrom(p, x) = Count(terms[x].targets, phis[p].block)

\* Phi `p` got exactly the incoming value `value` from the insertion block.
GotIncoming(p, value) ==
    phis'[p].incoming = Append(phis[p].incoming, [ val |-> value, from |-> insertBlock ])

Finished == lastOp.by = "finish"

-----------------------------------------------------------------------------
\* C1: stack balance.  Each time `end` closes a control frame F of a
\* validated body, the operand stack is F.outerStackSize + |F.resultTypes|
\* deep right after the `end`; when F was reachable at the `end` the stack
\* was as deep right before it, and the assertion that the branch to the end
\* leaves the stack F.outerStackSize deep did not fail.
StackBalanceAtEnd ==
    [][ Emitted("end") =>
            LET F == Last(controlStack)
                depth == F.outerStackSize + Len(F.resultTypes)
            IN  /\ controlStack' = Front(controlStack)
                /\ Len(stack') = depth
                /\ F.isReachable => Len(stack) = depth /\ ~assertFailed'
      ]_vars

\* An `end` has closed a reachable frame that yields a result above an outer
\* operand: the result is a phi of the block now being filled.
StackBalanceAtEndWitness ==
    /\ lastOp.op.code = "end"
    /\ lastOp.by = "emitter"
    /\ controlStack # << >>
    /\ Len(stack) = 2
    /\ stack[2].op = "phi"
    /\ phis[stack[2].n].block = insertBlock
    /\ phis[stack[2].n].incoming # << >>

-----------------------------------------------------------------------------
\* C2: unreachability containment.  While the innermost control frame is
\* unreachable, an operator is passed to the emitter only if it is an
\* `else`, `end`, `catch` or `catch_all` of that frame, that is, with no
\* structure open in the unreachable code; every other operator is handled
\* by the visitor, which emits no instruction and leaves the operand,
\* control, branch-target, try and catch stacks (and the phis, the
\* terminators and the insertion point) as they were.
UnreachabilityContainment ==
    [][ (Decoded /\ ~Last(controlStack).isReachable) =>
            /\ lastOp'.by \in { "forwarded", "visitor" }
            /\ lastOp'.by = "forwarded" <=>
                   /\ lastOp'.op.code \in { "else", "end", "catch", "catch_all" }
                   /\ skipped = << >>
            /\ lastOp'.by = "visitor" =>
                   /\ numInsts' = numInsts
                   /\ UNCHANGED << stack, controlStack, branchTargetStack,
                                   tryStack, catchStack, phis, terms,
                                   insertBlock >>
      ]_vars

\* The visitor has skipped an `end` that closes a structure opened in
\* unreachable code.
UnreachabilityContainmentWitness ==
    /\ lastOp.by = "visitor"
    /\ lastOp.op.code = "end"
    /\ controlStack # << >>
    /\ ~Last(controlStack).isReachable
    /\ numOps >= 3

-----------------------------------------------------------------------------
\* C3: phi consistency.  When a function has been emitted completely, every
\* phi created for a block, loop, if, try or function frame that was not
\* erased has exactly one incoming value per edge into its block, whether
\* the edge is a fallthrough at `end` or `else`, a br, a br_if, a return or a
\* case or the default of a br_table; a br_table that names a target twice,
\* or its default among the cases, has an edge for every mention.
PhiConsistentWhenFinished == Finished => PhiConsistent

\* A finished function in which a switch names a block twice and a phi of
\* that block has two incoming values from the switch's block.
PhiConsistentWhenFinishedWitness ==
    /\ Finished
    /\ \E x \in DOMAIN terms : \E p \in DOMAIN phis :
           /\ terms[x].kind = "switch"
           /\ ~phis[p].erased
           /\ Count(terms[x].targets, phis[p].block) >= 2
           /\ IncomingFrom(p, x) >= 2

-----------------------------------------------------------------------------
\* C4: canonical phi types.  Every value added as an incoming value of a phi
\* has the phi's type, the canonical LLVM type of its value type, whichever
\* path added it: a fallthrough, a br, a br_if, a br_table, a return, the
\* initial value of a loop parameter or the captured argument of an if
\* without else.
PhiIncomingCanonical ==
    \A p \in DOMAIN phis :
        \A i \in DOMAIN phis[p].incoming :
            phis[p].incoming[i].val.lt = phis[p].lt

-----------------------------------------------------------------------------
\* C5: the floor of the operand stack.  Between any two operators of a
\* validated body the operand stack is at least as deep as the innermost
\* frame's outerStackSize, and no handler removes or reads a value below
\* that depth: the values below it are the same after the operator as
\* before, no assertion of pop or popMultiple fails, and the operands that
\* drop removes and that tee_local and br_if read without popping lie above
\* it.
NeverBelowOuterStackSize ==
    [][ Decoded =>
            LET outer == Last(controlStack).outerStackSize
                above == Len(stack) - outer
                code  == lastOp'.op.code
            IN  /\ above >= 0
                /\ ~assertFailed'
                /\ Len(stack') >= outer
                /\ Take(stack', outer) = Take(stack, outer)
                /\ controlStack' # << >> =>
                       Len(stack') >= Last(controlStack').outerStackSize
                /\ lastOp'.by = "emitter" /\ code \in { "drop", "tee_local" } =>
                       above >= 1
                /\ lastOp'.by = "emitter" /\ code = "br_if" =>
                       above >= 1 + Len(getBranchTargetByDepth(Cur, lastOp'.op.index).params)
      ]_vars

\* A br has discarded the operands of an inner frame and left the operand
\* below the frame where it was.
NeverBelowOuterStackSizeWitness ==
    /\ lastOp.op.code = "br"
    /\ lastOp.by = "emitter"
    /\ Len(controlStack) >= 2
    /\ ~Last(controlStack).isReachable
    /\ Last(controlStack).outerStackSize >= 1
    /\ Len(stack) = Last(controlStack).outerStackSize

-----------------------------------------------------------------------------
\* C6, as the code has it: after every operator the branch-target stack and
\* the control stack have the same length, and the i-th branch target is the
\* one the i-th control frame pushed when it was opened, a frame of kind
\* catch included, which keeps the branch target of its try: the frame's
\* outerBranchTargetStackSize is i - 1, and the target is the frame's end
\* block with its end phis and result types, or for a loop the loop body (the
\* block created right before the end block) with the parameter phis.  The
\* catch operators leave the branch-target stack alone, and `end` truncates the branch-target stack to the closed
\* frame's outerBranchTargetStackSize, which removes exactly that one target.
BranchTargetPerControlFrame ==
    [][ Decoded =>
            /\ Len(branchTargetStack') = Len(controlStack')
            /\ \A i \in DOMAIN controlStack' :
                   LET F == controlStack'[i]
                       T == branchTargetStack'[i]
                   IN  /\ F.outerBranchTargetStackSize = i - 1
                       /\ IF F.type = "loop"
                          THEN /\ T.block = F.endBlock - 1
                               /\ \A k \in DOMAIN T.phis :
                                      phis'[T.phis[k]].block = T.block
                          ELSE /\ T.block = F.endBlock
                               /\ T.phis = F.endPHIs
                               /\ T.params = F.resultTypes
            /\ Emitted("end") =>
                   /\ branchTargetStack'
                          = Take(branchTargetStack,
                                 Last(controlStack).outerBranchTargetStackSize)
                   /\ Len(branchTargetStack') = Len(branchTargetStack) - 1
            /\ Emitted("catch") \/ Emitted("catch_all") =>
                   branchTargetStack' = branchTargetStack
      ]_vars

\* A catch clause is open, and the branch target of its try is still the
\* top of the branch-target stack.
BranchTargetPerControlFrameWitness ==
    /\ lastOp.op.code \in { "catch", "catch_all" }
    /\ lastOp.by = "emitter"
    /\ Last(controlStack).type = "catch"
    /\ Len(branchTargetStack) = Len(controlStack)
    /\ Last(branchTargetStack).block = Last(controlStack).endBlock

\* C6, as the spec has it: every control frame except a frame of kind catch
\* contributes exactly one branch target and a frame of kind catch none.
CatchContributesNoBranchTarget ==
    Len(branchTargetStack)
        = Cardinality({ i \in DOMAIN controlStack : controlStack[i].type # "catch" })

-----------------------------------------------------------------------------
\* C7: the byte offset of a memory access.  For a load, a store and an
\* atomic operator, and for every 32-bit index and static offset, the byte
\* offset applied to the memory base is zext64(index) + zext64(offset) in
\* 64-bit arithmetic: as a natural number it is index + offset, below 2^33,
\* never a sign-extended (negative) or a 32-bit-wrapped value.  The natural
\* number index + offset is low + 2^16 * high, with low below 2^16.
ByteOffsetIsZeroExtendedSum ==
    access.op # "none" =>
        LET sum0 == access.index[1] + access.offset[1]
            low  == sum0 % Limb
            high == access.index[2] + access.offset[2] + sum0 \div Limb
        IN  /\ Len(access.pointer) = 4
            /\ access.pointer[1] = low
            /\ access.pointer[4] = 0
            /\ access.pointer[3] <= 1
            /\ access.pointer[2] + Limb * access.pointer[3] = high

\* A load whose index has its top bit set and whose sum with the offset
\* carries into bit 32.
ByteOffsetIsZeroExtendedSumWitness ==
    /\ access.op = "i32.load"
    /\ access.index[2] >= Limb \div 2
    /\ access.offset # << 0, 0 >>
    /\ access.pointer[3] = 1

-----------------------------------------------------------------------------
\* C8, as the code has it: for type (param i32) (result i32) and the body
\* [local.get 0, i32.const c, i32.eqz, if (param i32) (result i32), arm, end,
\* end] with c = 0 or 1, whose `if` takes the argument as its parameter and
\* whose then-arm is empty or [drop, local.get 0], emission completes
\* without a failed assertion, every phi has one incoming value per edge into
\* its block, and the emitted function returns its argument (5 for 5, 0 for
\* 0): with c = 1 the argument reaches the end of the `if` over the else
\* edge that `end` makes up.
MissingElseIdentity ==
    (Finished /\ \E s \in MissingElseIdentityBodies : script = s.body) =>
        /\ ~assertFailed
        /\ PhiConsistent
        /\ \A argument \in Arguments : Returns(<< argument >>, << argument >>)

\* The body with c = 1 and an empty then-arm has been emitted: the end phi of
\* the `if` has the captured argument as the incoming value from the else
\* block, and a call with 5 leaves the `if` over that edge and returns 5.
MissingElseIdentityWitness ==
    /\ Finished
    /\ script = MissingElseBody(1, FunctionType(<< "i32" >>, << "i32" >>), << >>).body
    /\ \E p \in DOMAIN phis : \E i \in DOMAIN phis[p].incoming :
           /\ phis[p].incoming[i].val = Value("local", "i32", 0, << >>)
           /\ terms[phis[p].incoming[i].from] = [ kind |-> "br", cond |-> << >>,
                                                  targets |-> << phis[p].block >> ]
           /\ Len(phis[p].incoming) = 2
    /\ Returns(<< 5 >>, << 5 >>)

\* C8, as the spec has it: for type (param i32) (result i32) and the body
\* [local.get 0, i32.const 0, i32.eqz, if i32, local.get 0, end, end], with
\* `if i32` read as an `if` with result i32 or as an `if` with parameter
\* and result i32, emission completes without a failed assertion, every phi
\* has one incoming value per edge into its block, and the function returns
\* its argument.
MissingElseAsWritten ==
    (/\ Finished
     /\ \E ifType \in { FunctionType(<< >>, << "i32" >>),
                        FunctionType(<< "i32" >>, << "i32" >>) } :
            script = MissingElseBody(0, ifType, << Indexed("get_local", 0) >>).body) =>
        /\ ~assertFailed
        /\ PhiConsistent
        /\ Returns(<< 5 >>, << 5 >>)

-----------------------------------------------------------------------------
\* C9: br_if keeps its arguments.  `br_if d` removes only the condition from
\* the operand stack: the |target.params| values below the condition are
\* added in order, coerced, as incoming values from the current block to the
\* target's phis, the i-th value to the i-th phi, and they stay on the stack
\* in the same order for the fallthrough path; the current frame stays
\* reachable and no other phi changes.
BrIfKeepsArguments ==
    [][ (Emitted("br_if") /\ lastOp'.by = "emitter") =>
            LET target == getBranchTargetByDepth(Cur, lastOp'.op.index)
                n == Len(target.params)
                args == SubSeq(stack, Len(stack) - n, Len(stack) - 1)
            IN  /\ stack' = Front(stack)
                /\ TopN(stack', n) = args
                /\ Len(target.phis) = n
                /\ \A i \in 1 .. n :
                       GotIncoming(target.phis[i], coerceToCanonicalType(args[i]))
                /\ \A p \in DOMAIN phis :
                       p \notin Range(target.phis) => phis'[p] = phis[p]
                /\ terms'[insertBlock].kind = "condbr"
                /\ terms'[insertBlock].targets = << target.block, insertBlock' >>
                /\ controlStack' = controlStack
                /\ Last(controlStack').isReachable
                /\ ~assertFailed'
      ]_vars

\* A br_if to a label of two values has left both on the stack, and they are
\* the incoming values of the label's two phis, in order.
BrIfKeepsArgumentsWitness ==
    /\ lastOp.op.code = "br_if"
    /\ lastOp.by = "emitter"
    /\ Len(Last(branchTargetStack).phis) = 2
    /\ Len(stack) >= 2
    /\ stack[Len(stack) - 1] # Last(stack)
    /\ Last(phis[Last(branchTargetStack).phis[1]].incoming).val = stack[Len(stack) - 1]
    /\ Last(phis[Last(branchTargetStack).phis[2]].incoming).val = Last(stack)

-----------------------------------------------------------------------------
\* C10: br.  `br d` pops exactly |target.params| values, which lie above the
\* innermost frame's outerStackSize, adds them in order, coerced, as incoming
\* values from the current block to the target's phis, ends the current
\* block with an unconditional branch to the target block, truncates the
\* operand stack to the innermost frame's outerStackSize and marks that frame
\* unreachable.  So (block (result i32) (i32.const 1) (i32.const 2) (br 0)
\* (drop)) yields 2: the `drop` after the `br` is skipped without effect, the
\* end phi of the block has the single incoming value 2, the 1 is discarded
\* and the function returns 2.
BrPopsArgumentsAndEntersUnreachable ==
    [][ /\ (Emitted("br") /\ lastOp'.by = "emitter") =>
               LET target == getBranchTargetByDepth(Cur, lastOp'.op.index)
                   n == Len(target.params)
                   outer == Last(controlStack).outerStackSize
                   args == TopN(stack, n)
               IN  /\ Len(stack) - outer >= n
                   /\ Len(target.phis) = n
                   /\ \A i \in 1 .. n :
                          GotIncoming(target.phis[i], coerceToCanonicalType(args[i]))
                   /\ \A p \in DOMAIN phis :
                          p \notin Range(target.phis) => phis'[p] = phis[p]
                   /\ terms'[insertBlock] = [ kind |-> "br", cond |-> << >>,
                                              targets |-> << target.block >> ]
                   /\ stack' = Take(stack, outer)
                   /\ controlStack' = [ controlStack EXCEPT
                                          ![Len(controlStack)].isReachable = FALSE ]
                   /\ branchTargetStack' = branchTargetStack
                   /\ ~assertFailed'
        /\ (script = BranchWithArgs.body /\ Decoded /\ lastOp'.op.code = "drop") =>
               /\ lastOp'.by = "visitor"
               /\ UNCHANGED << stack, controlStack, phis, terms, numInsts >>
        /\ (script = BranchWithArgs.body /\ lastOp'.by = "finish") =>
               /\ phis'[2].block = 3
               /\ phis'[2].incoming = << [ val |-> emitLiteral(2), from |-> EntryBlock ] >>
               /\ Returns(<< >>, << 2 >>)'
               /\ ~assertFailed'
      ]_vars

\* The body of the scenario has been emitted: the `br` left the 1 below its
\* argument on the stack to be discarded, and the function returns one value.
BrPopsArgumentsAndEntersUnreachableWitness ==
    /\ Finished
    /\ script = BranchWithArgs.body
    /\ numOps = 7
    /\ Call(<< >>).kind = "return"
    /\ Len(Call(<< >>).values) = 1

-----------------------------------------------------------------------------
\* C11: division.  For i32 and i64 the code emitted for div_s calls the
\* divideByZeroOrIntegerOverflowTrap intrinsic exactly when the divisor is 0
\* or the dividend is INT_MIN and the divisor is -1, and executes the sdiv
\* otherwise, on operands for which LLVM defines it; div_u and rem_u call the
\* intrinsic exactly when the divisor is 0 and execute udiv / urem otherwise.
DivisionTrapsInsteadOfUndefined ==
    LET left    == run.operands[1]
        right   == run.operands[2]
        outcome == run.outcome
        trapped == outcome.trap = "divideByZeroOrIntegerOverflowTrap"
        intMin  == /\ left[NumLimbs(run.type)] = Limb \div 2
                   /\ \A i \in 1 .. NumLimbs(run.type) - 1 : left[i] = 0
        minusOne == \A i \in 1 .. NumLimbs(run.type) : right[i] = Limb - 1
        zero     == \A i \in 1 .. NumLimbs(run.type) : right[i] = 0
    IN  /\ run.op = "div_s" =>
            /\ trapped <=> (zero \/ (intMin /\ minusOne))
            /\ ~trapped => /\ outcome.trap = "none"
                           /\ outcome.inst = "sdiv"
                           /\ outcome.operands = << left, right >>
                           /\ outcome.defined
        /\ run.op \in { "div_u", "rem_u" } =>
            /\ trapped <=> zero
            /\ ~trapped => /\ outcome.trap = "none"
                           /\ outcome.inst = (IF run.op = "div_u" THEN "udiv" ELSE "urem")
                           /\ outcome.operands = << left, right >>
                           /\ outcome.defined

\* INT32_MIN / -1 has been run through the code of i32.div_s, and trapped.
DivisionTrapsInsteadOfUndefinedWitness ==
    /\ run.op = "div_s"
    /\ run.type = "i32"
    /\ run.operands = << << 0, Limb \div 2 >>, << Limb - 1, Limb - 1 >> >>
    /\ run.outcome.trap = "divideByZeroOrIntegerOverflowTrap"

-----------------------------------------------------------------------------
\* C12: shifts.  For shl, shr_s and shr_u on i32 and i64 the shift the
\* emitted code executes has the amount count AND (W-1), which is count mod
\* W and so always an amount LLVM defines the shift for; the result is the
\* left operand shifted by count mod W bits (zeros shifted in by shl and
\* shr_u, copies of the sign bit by shr_s); a count equal to W shifts by 0.
ShiftCountIsMasked ==
    run.op \in { "shl", "shr_s", "shr_u" } =>
        LET left    == run.operands[1]
            count   == run.operands[2]
            W       == IF run.type = "i64" THEN 64 ELSE 32
            n       == W \div 16
            k       == count[1] % W
            outcome == run.outcome
            amount  == outcome.operands[2]
            result  == outcome.result
        IN  /\ outcome.trap = "none"
            /\ outcome.inst = (CASE run.op = "shl"   -> "shl"
                                 [] run.op = "shr_s" -> "ashr"
                                 [] run.op = "shr_u" -> "lshr")
            /\ outcome.operands[1] = left
            /\ amount = [ i \in 1 .. n |-> IF i = 1 THEN k ELSE 0 ]
            /\ outcome.defined
            /\ Len(result) = n
            /\ \A j \in 0 .. W - 1 :
                   BitOf(result, j) =
                       CASE run.op = "shl" ->
                               IF j >= k THEN BitOf(left, j - k) ELSE 0
                         [] run.op = "shr_u" ->
                               IF j + k < W THEN BitOf(left, j + k) ELSE 0
                         [] run.op = "shr_s" ->
                               IF j + k < W THEN BitOf(left, j + k)
                               ELSE BitOf(left, W - 1)
            /\ count = [ i \in 1 .. n |-> IF i = 1 THEN W ELSE 0 ] =>
                   /\ amount = [ i \in 1 .. n |-> 0 ]
                   /\ result = left

\* i32.shl with the count 32 has been run on a value other than 0.
ShiftCountIsMaskedWitness ==
    /\ run.op = "shl"
    /\ run.type = "i32"
    /\ run.operands = << << 1, Limb \div 2 >>, << 32, 0 >> >>
    /\ run.outcome.operands[2] = << 0, 0 >>
    /\ run.outcome.result = << 1, Limb \div 2 >>

-----------------------------------------------------------------------------
\* The f32 written 2147483647.0f: the nearest f32 to 2^31 - 1.
F32Of2147483647 == RoundF32(0, << Limb - 1, Limb \div 2 - 1 >>)

\* C13: i32.trunc_s_f32.  The emitted code calls invalidFloatOperationTrap
\* for a NaN; otherwise it calls divideByZeroOrIntegerOverflowTrap exactly
\* when the operand is >= 2^31 or <= -(2^31 + 256), and otherwise executes
\* an fptosi that LLVM defines, whose result is the operand rounded towards
\* zero.  2147483648.0f traps.  The literal 2147483647.0f is the f32 2^31
\* and traps as well; the greatest f32 that converts is 2147483520.0f, to
\* 2147483520, and no f32 converts to INT32_MAX.
TruncSF32TrapsOutOfRange ==
    run.op = "i32.trunc_s_f32" =>
        LET operand == run.operands[1]
            outcome == run.outcome
            \* the operand has a magnitude of 2^31 or more: its 24-bit
            \* significand is scaled by 2^8 or more
            huge == \/ operand.class = "inf"
                    \/ operand.class = "finite" /\ operand.m # 0 /\ operand.e >= 8
            tooGreat == operand.sign = 0 /\ huge
            tooSmall == /\ operand.sign = 1
                        /\ \/ operand.class = "inf"
                           \/ /\ operand.class = "finite"
                              /\ operand.m # 0
                              /\ \/ operand.e >= 9
                                 \/ operand.e = 8 /\ operand.m >= 2 ^ 23 + 1
        IN  /\ operand.class = "nan" <=> outcome.trap = "invalidFloatOperationTrap"
            /\ operand.class # "nan" =>
                   ((tooGreat \/ tooSmall)
                       <=> outcome.trap = "divideByZeroOrIntegerOverflowTrap")
            /\ outcome.trap = "none" =>
                   /\ outcome.inst = "fptosi"
                   /\ outcome.operands = << operand >>
                   /\ outcome.defined
                   /\ outcome.result # << Limb - 1, Limb \div 2 - 1 >>
                   /\ operand.e \in 0 .. 7 /\ operand.sign = 0 =>
                          /\ outcome.result[1]
                               = (operand.m * (2 ^ operand.e)) % Limb
                          /\ outcome.result[2]
                               = (operand.m \div (2 ^ (16 - operand.e))) % Limb
                   /\ operand.e \in -23 .. -1 /\ operand.sign = 0 =>
                          outcome.result[1] + Limb * outcome.result[2]
                              = operand.m \div (2 ^ (0 - operand.e))
                   /\ operand.sign = 1 /\ operand.e = 8 /\ operand.m = 2 ^ 23 =>
                          outcome.result = << 0, Limb \div 2 >>
            /\ operand = F32(0, 2 ^ 23, 8) =>
                   outcome.trap = "divideByZeroOrIntegerOverflowTrap"
            /\ operand = F32Of2147483647 =>
                   /\ operand = F32(0, 2 ^ 23, 8)
                   /\ outcome.trap = "divideByZeroOrIntegerOverflowTrap"
            /\ operand = F32(0, 2 ^ 24 - 1, 7) =>
                   /\ outcome.trap = "none"
                   /\ outcome.result = << Limb - 128, Limb \div 2 - 1 >>

\* The operand written 2147483647.0f has been run through the code.
TruncSF32TrapsOutOfRangeWitness ==
    /\ run.op = "i32.trunc_s_f32"
    /\ run.operands[1] = F32Of2147483647
    /\ run.outcome.trap = "divideByZeroOrIntegerOverflowTrap"

\* C13 as stated: the input 2147483648.0f traps and the input 2147483647.0f
\* converts to INT32_MAX.
TruncSF32Of2147483647IsIntMax ==
    run.op = "i32.trunc_s_f32" =>
        /\ run.operands[1] = F32(0, 2 ^ 23, 8) =>
               run.outcome.trap = "divideByZeroOrIntegerOverflowTrap"
        /\ run.operands[1] = F32Of2147483647 =>
               /\ run.outcome.trap = "none"
               /\ run.outcome.result = << Limb - 1, Limb \div 2 - 1 >>

-----------------------------------------------------------------------------
\* C14: branch soundness.  For every br, br_if and br_table the emitter
\* handles in reachable code of a validated body, each depth d it uses is
\* less than the size of the branch-target stack; the target it branches to
\* is the entry d positions below the top, which belongs to the control
\* frame d positions below the top of the control stack (its end block,
\* unless the frame is a loop); and the assertion of getBranchTargetByDepth
\* does not fail.
BranchDepthWithinTargetStack ==
    [][ \A code \in { "br", "br_if", "br_table" } :
          (Emitted(code) /\ lastOp'.by = "emitter") =>
            LET depths == << lastOp'.op.index >> \o lastOp'.op.targets
                size   == Len(branchTargetStack)
                resolved(d) == branchTargetStack[size - d]
                frame(d)    == controlStack[Len(controlStack) - d]
            IN  /\ size = Len(controlStack)
                /\ \A i \in DOMAIN depths :
                       /\ depths[i] >= 0
                       /\ depths[i] < size
                       /\ size - depths[i] \in DOMAIN branchTargetStack
                       /\ frame(depths[i]).type # "loop" =>
                              /\ resolved(depths[i]).block = frame(depths[i]).endBlock
                              /\ resolved(depths[i]).phis = frame(depths[i]).endPHIs
                       /\ frame(depths[i]).type = "loop" =>
                              resolved(depths[i]).block # frame(depths[i]).endBlock
                /\ resolved(0) = Last(branchTargetStack)
                /\ code = "br" =>
                       terms'[insertBlock].targets = << resolved(depths[1]).block >>
                /\ code = "br_if" =>
                       terms'[insertBlock].targets[1] = resolved(depths[1]).block
                /\ code = "br_table" =>
                       terms'[insertBlock].targets
                           = [ i \in DOMAIN depths |-> resolved(depths[i]).block ]
                /\ branchTargetStack' = branchTargetStack
                /\ ~assertFailed'
      ]_vars

\* A br to the label one frame out has been emitted inside a nested frame.
BranchDepthWithinTargetStackWitness ==
    /\ lastOp.op.code = "br"
    /\ lastOp.by = "emitter"
    /\ lastOp.op.index = 1
    /\ Len(branchTargetStack) >= 2
    /\ ~assertFailed

-----------------------------------------------------------------------------
\* C15: throw.  `throw T` pops |T.params| operands and stores them into the
\* argument array so that the last declared parameter of T is at index 0 and
\* the first declared parameter at index |T.params| - 1, calls
\* throwException(type instance, pointer to the array, isUserException = 1),
\* ends the block with unreachable and enters the unreachable state.
ThrowStoresArgumentsReversed ==
    [][ (Emitted("throw") /\ lastOp'.by = "emitter") =>
            LET params  == exceptionTypeInstances[lastOp'.op.index + 1]
                numArgs == Len(params)
                \* operand i is the i-th declared parameter
                operands == TopN(stack, numArgs)
                thrown   == Last(calls')
                memory   == thrown.arguments[2].a[1].a
            IN  /\ calls' = Append(calls, thrown)
                /\ thrown.callee = "throwException"
                /\ thrown.block = insertBlock
                /\ thrown.arguments[1]
                     = Value("typeInstance", "i64", lastOp'.op.index, << >>)
                /\ thrown.arguments[2].a[1].op = "alloca"
                /\ Len(memory) = numArgs
                /\ \A index \in 0 .. numArgs - 1 :
                       memory[index + 1] = operands[numArgs - index]
                /\ thrown.arguments[3] = emitLiteral(1)
                /\ terms'[insertBlock].kind = "unreachable"
                /\ stack' = Take(stack, Last(controlStack).outerStackSize)
                /\ ~Last(controlStack').isReachable
                /\ ~assertFailed'
      ]_vars

\* The functions of the module named `name`.
FunctionsNamed(m, name) == { k \in DOMAIN m.llvmModule : m.llvmModule[k] = name }

\* C16, as stated: emitting the functions of one module, each with its own
\* EmitFunctionContext, on threads of their own or not, is free of data
\* races, and an emission never writes what the emissions share: no debug-info
\* entry, no lazily created helper function and no filter function is added.
EmissionOnlyReadsSharedState ==
    LET m       == moduleContext
        initial == EmitModuleContext(m.win32, m.concurrent, m.functionDefs)
    IN  m.functionDefs # << >> =>
            /\ ~DataRace(m)
            /\ m.diFunctions = initial.diFunctions
            /\ m.llvmModule = initial.llvmModule
            /\ m.tryPrologueDummyFunction = initial.tryPrologueDummyFunction

\* C16, amended: every emission writes what the emissions share. Past its
\* first step it has added its subprogram to the debug info of the module,
\* and in the Windows build a finished emission of a body with a try has left
\* __try_prologue and its filter function in the module. Emitted one after
\* the other, as EmitModuleContext::emit does, the emissions never race,
\* leave no object undefined, create the debug info in the order of the
\* definitions and create __try_prologue at most once.
EmissionInOrderIsRaceFree ==
    LET m       == moduleContext
        started == { i \in DOMAIN m.pc : m.pc[i] \notin { "notStarted", "createFunction" } }
        tried   == { i \in DOMAIN m.pc : /\ m.pc[i] = "done"
                                         /\ m.win32
                                         /\ m.functionDefs[i] = "try" }
    IN  m.functionDefs # << >> =>
            /\ \A i \in started :
                   \/ \E k \in DOMAIN m.diFunctions : m.diFunctions[k] = i
                   \/ "diBuilder" \in m.undefined
            /\ ~m.concurrent =>
                   /\ ~DataRace(m)
                   /\ m.undefined = { }
                   /\ m.diFunctions = [ k \in 1 .. Cardinality(started) |-> k ]
                   /\ Cardinality(FunctionsNamed(m, "__try_prologue")) <= 1
                   /\ Cardinality(FunctionsNamed(m, "sehFilter")) = Cardinality(tried)
                   /\ tried # { } =>
                          /\ m.tryPrologueDummyFunction \in FunctionsNamed(m, "__try_prologue")

\* The Windows build has emitted functions with a try one after the other.
EmissionInOrderIsRaceFreeWitness ==
    LET m == moduleContext
    IN  /\ m.functionDefs # << >>
        /\ ~m.concurrent
        /\ m.win32
        /\ \A i \in DOMAIN m.pc : m.functionDefs[i] = "try" /\ m.pc[i] = "done"
        /\ m.diFunctions = [ k \in DOMAIN m.pc |-> k ]
        /\ Cardinality(FunctionsNamed(m, "sehFilter")) = Len(m.functionDefs)

\* Some node of the list, or below it, is an error node.
RECURSIVE HasError(_)
HasError(nodes) ==
    \E k \in DOMAIN nodes : nodes[k].type = "Error" \/ HasError(nodes[k].children)

\* C17: parse never lets an exception escape to its caller, and comes back
\* with a tree: for every malformed input, the fatal cases included (end of
\* input where more is expected, unterminated block comment, missing closing
\* parenthesis, single semicolon), the tree holds an error node, and the
\* nodes parsed before the error are still part of it; input that parse
\* leaves unread is malformed too.
ParseEmbedsEveryErrorInTree ==
    LET tree == sexp.tree
    IN  sexp.string # << >> /\ sexp.stage # "given" =>
            /\ tree.returned
            /\ tree.thrown # NoException =>
                   /\ HasError(tree.nodes)
                   /\ Len(tree.nodes) > Len(tree.discarded)
                   /\ SubSeq(tree.nodes, 1, Len(tree.discarded)) = tree.discarded
            /\ tree.next <= Len(sexp.string) => HasError(tree.nodes)

\* Some node of the list, or below it, is a float.
RECURSIVE HasFloat(_)
HasFloat(nodes) ==
    \E k \in DOMAIN nodes : nodes[k].type = "Float" \/ HasFloat(nodes[k].children)

\* C18: for every input that parses to a tree without an error node, print
\* returns a string, and parsing that string yields a tree structurally equal
\* to the first: the same node types, values and child order, for subtrees
\* (the empty one included), attributes, symbols, strings with escaped bytes,
\* and signed and unsigned integers (-0 included).
ParsePrintParseIsIdentity ==
    LET tree == sexp.tree
    IN  /\ sexp.string # << >>
        /\ sexp.stage \in { "printed", "reparsed" }
        /\ tree.nodes # << >>
        /\ ~HasError(tree.nodes)
        /\ ~HasFloat(tree.nodes)
        => /\ sexp.printed.returned
           /\ sexp.stage = "reparsed" =>
                  /\ sexp.reparsed.returned
                  /\ sexp.reparsed.nodes = tree.nodes

\* The hexits of a fraction left-aligned in the 52 bits of a significand:
\* hexit j in the bits 52 - 4j .. 55 - 4j, hexits after the 13th left out.
LeftAligned(fraction) ==
    LET nibble(p) == IF p <= 12 /\ 13 - p \in DOMAIN fraction
                     THEN parseHexit(fraction[13 - p]) ELSE 0
    IN  [ i \in 1 .. 4 |-> nibble(4 * i - 4) + 16 * nibble(4 * i - 3)
                           + 256 * nibble(4 * i - 2) + 4096 * nibble(4 * i - 1) ]

\* C19: every hexadecimal float literal 0x1.<h>p<e> the parser accepts
\* (-1022 <= e <= 1023) yields the f64 with the sign of the literal, the
\* biased exponent e + 1023 and the hexits h left-aligned in the significand
\* (0x1.8p+1 the bits of 3.0), and 0x0.<h>p-1022 yields the subnormal with
\* the biased exponent 0.
HexFloatBitsAreExact ==
    LET literal == sexp.literal
        e       == literal.exponent.value
        sign    == IF literal.sign = << "-" >> THEN 1 ELSE 0
        biased  == IF literal.integerPart = << "1" >> THEN e + 1023 ELSE 0
    IN  /\ sexp.string # << >>
        /\ sexp.stage = "parsed"
        /\ \/ literal.integerPart = << "1" >> /\ e >= 0 - 1022 /\ e <= 1023
           \/ literal.integerPart = << "0" >> /\ e = 0 - 1022
        /\ ~HasError(sexp.tree.nodes)
        => /\ sexp.tree.returned
           /\ sexp.tree.nodes
                  = << FloatNode(F64Bits(sign, biased, LeftAligned(literal.fraction))) >>

-----------------------------------------------------------------------------
\* The low bits of a byte offset that an alignment of 2^k leaves zero.
LowBits(pointer, naturalAlignmentLog2) == pointer[1] % 2 ^ naturalAlignmentLog2

\* C20 as stated: every atomic load, store, read-modify-write and cmpxchg of
\* natural alignment 2^k with k > 0 calls misalignedAtomicTrap exactly when
\* the low k bits of the effective address, the index operand plus the
\* static offset, are non-zero, and the memory operation it runs otherwise
\* is sequentially consistent.
MisalignedAtomicTrapsOnEffectiveAddress ==
    (access.op # "none" /\ "ordering" \in DOMAIN access
                        /\ access.naturalAlignmentLog2 > 0) =>
        /\ access.run.trap = "misalignedAtomicTrap"
               <=> LowBits(access.pointer, access.naturalAlignmentLog2) # 0
        /\ access.run.trap = "none" =>
               /\ access.run.operands = << access.pointer >>
               /\ access.ordering = "SequentiallyConsistent"

-----------------------------------------------------------------------------
\* C21: the visitor of unreachable code.  While the innermost frame is
\* unreachable, every `block`, `loop`, `if` and `try` increments the
\* visitor's nesting counter and the `end` that closes such a structure
\* decrements it, so that the counter is the number of structures open in
\* the unreachable code; `else`, `end`, `catch` and `catch_all` are passed to
\* the emitter exactly when the counter is 0, when they belong to the
\* unreachable frame itself; after the operator passed on the frame is
\* reachable again (else, catch, catch_all) or popped (end), the frame below
\* it being reachable; and the counter is 0 whenever the emitter handles an
\* operator in reachable code.
VisitorCountsNesting ==
    [][ Decoded =>
            LET F     == Last(controlStack)
                code  == lastOp'.op.code
                depth == unreachableControlDepth
            IN  /\ depth = Len(skipped)
                /\ unreachableControlDepth' = Len(skipped')
                /\ F.isReachable =>
                       /\ lastOp'.by = "emitter"
                       /\ depth = 0
                       /\ unreachableControlDepth' = 0
                /\ ~F.isReachable =>
                       /\ lastOp'.by \in { "visitor", "forwarded" }
                       /\ code \in { "block", "loop", "if", "try" } =>
                              /\ lastOp'.by = "visitor"
                              /\ unreachableControlDepth' = depth + 1
                              /\ skipped' = Append(skipped, code)
                       /\ code = "end" /\ depth > 0 =>
                              /\ lastOp'.by = "visitor"
                              /\ unreachableControlDepth' = depth - 1
                              /\ skipped' = Front(skipped)
                       /\ code \in { "else", "end", "catch", "catch_all" } =>
                              (lastOp'.by = "forwarded" <=> depth = 0)
                       /\ code \notin { "block", "loop", "if", "try", "end" } =>
                              unreachableControlDepth' = depth
                       /\ lastOp'.by = "forwarded" =>
                              /\ code \in { "else", "end", "catch", "catch_all" }
                              /\ unreachableControlDepth' = 0
                              /\ IF code = "end"
                                 THEN /\ controlStack' = Front(controlStack)
                                      /\ controlStack' # << >> =>
                                             Last(controlStack').isReachable
                                 ELSE /\ Len(controlStack') = Len(controlStack)
                                      /\ Last(controlStack').isReachable
      ]_vars

\* An `else` of the unreachable frame itself has been passed to the emitter
\* after a block and a try were opened and closed in the unreachable
\* then-arm: the frame is an ifElse and reachable again, and the counter is 0.
VisitorCountsNestingWitness ==
    /\ lastOp.op.code = "else"
    /\ lastOp.by = "forwarded"
    /\ script = SkippedNesting.body
    /\ numOps = 10
    /\ Len(controlStack) = 2
    /\ Last(controlStack).type = "ifElse"
    /\ Last(controlStack).isReachable
    /\ unreachableControlDepth = 0
    /\ skipped = << >>

-----------------------------------------------------------------------------
\* The values the `end` of the function frame leaves on the operand stack:
\* return phi i if it has an incoming value, else the zero of result type i.
ReturnValues ==
    [ i \in DOMAIN functionType.results |->
        IF phis[i].incoming # << >>
        THEN PhiValue(phis, i)
        ELSE typedZeroConstants(functionType.results[i]) ]

\* C22: the end of the operator loop.  For every validated body the operator
\* loop stops exactly when the `end` of the function frame pops the last
\* control frame: an operator is decoded only while the control stack is not
\* empty, the loop is left only with the control stack empty, and that
\* happens by an `end` handled by the emitter; at that point the control
\* stack and the branch-target stack are empty, the insertion point is the
\* return block, and the operand stack holds exactly one value per function
\* result, return phi i, which every `return` and a reachable function-root
\* `end` have fed from their block, or the typed zero when nothing fed it.
LoopStopsAtFunctionEnd ==
    [][ /\ Decoded => controlStack # << >>
        /\ lastOp'.by = "finish" =>
               /\ controlStack = << >>
               /\ lastOp.op.code = "end"
               /\ lastOp.by \in { "emitter", "forwarded" }
               /\ numOps' = numOps
               /\ script # << >> => numOps = Len(script)
        /\ (Decoded /\ controlStack' = << >>) =>
               /\ Emitted("end")
               /\ Len(controlStack) = 1
               /\ branchTargetStack' = << >>
               /\ insertBlock' = ReturnBlock
               /\ Len(stack') = Len(functionType.results)
               /\ stack' = ReturnValues'
               /\ ~assertFailed'
               /\ \A i \in DOMAIN functionType.results :
                      /\ phis'[i].block = ReturnBlock
                      /\ controlStack[1].isReachable =>
                             GotIncoming(i, coerceToCanonicalType(stack[i]))
                      /\ ~controlStack[1].isReachable => phis'[i] = phis[i] \/
                             (phis[i].incoming = << >> /\ phis'[i].erased)
        /\ (Emitted("return") /\ lastOp'.by = "emitter") =>
               \A i \in DOMAIN functionType.results :
                   GotIncoming(i, coerceToCanonicalType(
                                      TopN(stack, Len(functionType.results))[i]))
      ]_vars

\* The function-root `end` of a function with a result has emptied the
\* control stack; its return phi was fed by an earlier branch and by the
\* `end`, and is what the operand stack holds.
LoopStopsAtFunctionEndWitness ==
    /\ controlStack = << >>
    /\ branchTargetStack = << >>
    /\ lastOp.op.code = "end"
    /\ lastOp.by = "emitter"
    /\ insertBlock = ReturnBlock
    /\ Len(functionType.results) = 1
    /\ Len(phis[1].incoming) = 2
    /\ stack = << PhiValue(phis, 1) >>

-----------------------------------------------------------------------------
\* C23: `else`.  An `if` captures its parameters, the operands below the
\* condition, as elseArgs.  An `else` the emitter handles on an ifThen frame
\* F adds the results of the then-arm to F's end phis and branches to
\* F.endBlock only if the then-arm is still reachable, and creates no
\* terminator and no incoming value otherwise; it then moves the insertion
\* point to F.elseBlock, leaves the operand stack F.outerStackSize deep plus
\* the captured parameters in their order, and changes the frame to an ifElse
\* without else block and with isReachable true, also when the then-arm
\* ended unreachable; the branch-target stack and the frames below are as
\* before.
ElseSwitchesToElseBlock ==
    [][ /\ (Emitted("if") /\ lastOp'.by = "emitter") =>
               /\ Last(controlStack').type = "ifThen"
               /\ Last(controlStack').elseBlock # NoBlock
               /\ Last(controlStack').elseArgs
                      = TopN(Front(stack), Len(lastOp'.op.type.params))
        /\ Emitted("else") =>
               LET F == Last(controlStack)
                   results == TopN(stack, Len(F.resultTypes))
               IN  /\ F.type = "ifThen"
                   /\ F.isReachable <=> lastOp'.by = "emitter"
                   /\ F.isReachable =>
                          /\ terms'[insertBlock] = [ kind |-> "br", cond |-> << >>,
                                                     targets |-> << F.endBlock >> ]
                          /\ \A i \in DOMAIN F.endPHIs :
                                 GotIncoming(F.endPHIs[i],
                                             coerceToCanonicalType(results[i]))
                   /\ ~F.isReachable => terms' = terms /\ phis' = phis
                   /\ insertBlock' = F.elseBlock
                   /\ terms'[F.elseBlock] = NoTerm
                   /\ stack' = Take(stack, F.outerStackSize) \o F.elseArgs
                   /\ controlStack' = Append(Front(controlStack),
                          [ F EXCEPT !.type = "ifElse", !.isReachable = TRUE,
                                     !.elseBlock = NoBlock ])
                   /\ branchTargetStack' = branchTargetStack
                   /\ ~assertFailed'
      ]_vars

\* The `else` of an `if` with a parameter whose then-arm ended unreachable:
\* the frame is a reachable ifElse without else block, the captured
\* parameter is the one operand of the frame, the insertion point is the
\* else block, and the end phi has no incoming value from the then-arm.
ElseSwitchesToElseBlockWitness ==
    /\ lastOp.op.code = "else"
    /\ lastOp.by = "forwarded"
    /\ script = SkippedNesting.body
    /\ Last(controlStack).type = "ifElse"
    /\ Last(controlStack).isReachable
    /\ Last(controlStack).elseBlock = NoBlock
    /\ Last(controlStack).elseArgs = << emitLiteral(7) >>
    /\ stack = << emitLiteral(7) >>
    /\ terms[insertBlock] = NoTerm
    /\ phis[Last(controlStack).endPHIs[1]].incoming = << >>

-----------------------------------------------------------------------------
\* C24: the `end` of an `if` without `else`.  When `end` closes an ifThen
\* frame F, for which no `else` was seen, then whether or not the then-arm is
\* reachable at that point the else block gets an unconditional branch to
\* F.endBlock and end phi i receives the captured parameter i of the `if`
\* from the else block, after the value of the then-arm if that is
\* reachable; an ifElse frame has no else block left and its `end` creates
\* no terminator but that of the block it ends and no incoming value from
\* another block.  The emitted `if` yields its parameter on the path of the
\* false condition.
EndSynthesisesMissingElse ==
    [][ /\ Emitted("end") /\ Last(controlStack).type = "ifThen" =>
               LET F == Last(controlStack)
               IN  /\ F.elseBlock # NoBlock
                   /\ terms[F.elseBlock] = NoTerm
                   /\ terms'[F.elseBlock] = [ kind |-> "br", cond |-> << >>,
                                              targets |-> << F.endBlock >> ]
                   /\ Len(F.elseArgs) = Len(F.endPHIs)
                   /\ \A i \in DOMAIN F.endPHIs :
                          LET before == phis[F.endPHIs[i]].incoming
                              after  == phis'[F.endPHIs[i]].incoming
                              fromElse == [ val |-> F.elseArgs[i], from |-> F.elseBlock ]
                          IN  IF F.isReachable
                              THEN /\ Len(after) = Len(before) + 2
                                   /\ Front(Front(after)) = before
                                   /\ after[Len(after) - 1].from = insertBlock
                                   /\ Last(after) = fromElse
                              ELSE after = Append(before, fromElse)
                   /\ ~assertFailed'
        /\ Emitted("end") /\ Last(controlStack).type = "ifElse" =>
               LET F == Last(controlStack)
               IN  /\ F.elseBlock = NoBlock
                   /\ \A x \in DOMAIN terms : x # insertBlock => terms'[x] = terms[x]
                   /\ \A i \in DOMAIN F.endPHIs :
                          \A k \in DOMAIN phis'[F.endPHIs[i]].incoming :
                              k > Len(phis[F.endPHIs[i]].incoming) =>
                                  phis'[F.endPHIs[i]].incoming[k].from = insertBlock
        /\ (lastOp'.by = "finish" /\ script = MissingElseUnreachable.body) =>
               \A argument \in Arguments : Returns(<< argument >>, << argument >>)'
      ]_vars

\* The body whose `if` has a parameter, no `else` and an unreachable
\* then-arm has been emitted: the one incoming value of the end phi is the
\* captured parameter from the else block, which branches to the end block,
\* and a call with 5 returns 5.
EndSynthesisesMissingElseWitness ==
    /\ Finished
    /\ script = MissingElseUnreachable.body
    /\ \E p \in DOMAIN phis :
           /\ Len(phis[p].incoming) = 1
           /\ phis[p].incoming[1].val = Value("local", "i32", 0, << >>)
           /\ terms[phis[p].incoming[1].from]
                  = [ kind |-> "br", cond |-> << >>, targets |-> << phis[p].block >> ]
           /\ phis[p].block # ReturnBlock
    /\ Returns(<< 5 >>, << 5 >>)

-----------------------------------------------------------------------------
\* C25: the results of `end`.  When `end` closes a frame F, then for each
\* result i of F: if end phi i has received an incoming value, the phi is
\* kept and pushed as the result; otherwise, no block branching to the end
\* block, the phi is erased and the typed zero constant of result type i is
\* pushed.  In both cases exactly |F.resultTypes| values are pushed above
\* F.outerStackSize, in the order of the results.
EndPushesPhiOrZero ==
    [][ Emitted("end") =>
            LET F == Last(controlStack)
                n == Len(F.resultTypes)
            IN  /\ Len(F.endPHIs) = n
                /\ Len(stack') = F.outerStackSize + n
                /\ Take(stack', F.outerStackSize) = Take(stack, F.outerStackSize)
                /\ \A i \in 1 .. n :
                       LET p == F.endPHIs[i]
                           fed == phis'[p].incoming # << >>
                           result == stack'[F.outerStackSize + i]
                       IN  /\ phis'[p].block = F.endBlock
                           /\ phis'[p].lt = asLLVMType(F.resultTypes[i])
                           /\ fed <=> \E x \in DOMAIN terms' :
                                          F.endBlock \in Range(terms'[x].targets)
                           /\ fed => /\ ~phis'[p].erased
                                     /\ result = PhiValue(phis', p)
                           /\ ~fed => /\ phis'[p].erased
                                      /\ ~phis[p].erased
                                      /\ result = typedZeroConstants(F.resultTypes[i])
      ]_vars

\* An `end` has closed an unreachable block with two results that no branch
\* targets: both end phis are erased and two typed zeros are the operands.
EndPushesPhiOrZeroWitness ==
    /\ lastOp.op.code = "end"
    /\ lastOp.by = "forwarded"
    /\ controlStack # << >>
    /\ stack = << typedZeroConstants("i32"), typedZeroConstants("i32") >>
    /\ \E p \in DOMAIN phis : phis[p].erased /\ phis[p + 1].erased
                              /\ phis[p].block = insertBlock

-----------------------------------------------------------------------------
\* The phis that phi-feeding code can reach: those of the branch targets and
\* the end phis of the innermost frame.
ReachablePhis ==
    UNION { Range(branchTargetStack[i].phis) : i \in DOMAIN branchTargetStack }
        \cup Range(Last(controlStack).endPHIs)

\* C26: the target of a branch.  The branch target of a loop frame is the
\* loop body block, created right before the end block, with the loop's
\* parameter phis, one per parameter of the loop's type, never the loop's
\* end block or its end phis; a branch to it adds its |T.params| arguments to
\* those phis and nothing to the end phis.  The end phis of a loop receive an
\* incoming value only from the fallthrough at the loop's `end`: they are
\* empty until then, get one value from the block the `end` is emitted in if
\* that is reachable, and are out of reach of every later operator.  For a
\* frame of any other kind (function, block, if, try) the branch target is
\* the frame's end block with its end phis and result types.
BranchToLoopTargetsBody ==
    [][ Decoded =>
          /\ \A i \in DOMAIN controlStack :
                 LET F == controlStack[i]
                     T == branchTargetStack[i]
                 IN  IF F.type = "loop"
                     THEN /\ T.block = F.endBlock - 1
                          /\ T.block # F.endBlock
                          /\ Len(T.phis) = Len(T.params)
                          /\ Range(T.phis) \cap Range(F.endPHIs) = { }
                          /\ \A k \in DOMAIN T.phis : phis[T.phis[k]].block = T.block
                          /\ \A k \in DOMAIN F.endPHIs :
                                 /\ phis[F.endPHIs[k]].block = F.endBlock
                                 /\ phis[F.endPHIs[k]].incoming = << >>
                                 /\ i < Len(controlStack) =>
                                        phis'[F.endPHIs[k]].incoming = << >>
                     ELSE F.type \in { "function", "block", "ifThen", "ifElse", "try" } =>
                              /\ T.block = F.endBlock
                              /\ T.phis = F.endPHIs
                              /\ T.params = F.resultTypes
          /\ \A p \in DOMAIN phis :
                 phis'[p].incoming # phis[p].incoming => p \in ReachablePhis
          /\ (Emitted("end") /\ Last(controlStack).type = "loop") =>
                 LET F == Last(controlStack)
                     results == TopN(stack, Len(F.resultTypes))
                 IN  \A k \in DOMAIN F.endPHIs :
                         /\ phis'[F.endPHIs[k]].incoming
                                = IF F.isReachable
                                  THEN << [ val  |-> coerceToCanonicalType(results[k]),
                                            from |-> insertBlock ] >>
                                  ELSE << >>
                         /\ F.endPHIs[k] \notin ReachablePhis' \/ controlStack' = << >>
          /\ \A code \in { "br", "br_if", "br_table" } :
               (Emitted(code) /\ lastOp'.by = "emitter") =>
                 LET depths == << lastOp'.op.index >> \o lastOp'.op.targets
                     args(n) == IF code = "br" THEN TopN(stack, n)
                                ELSE TopN(Front(stack), n)
                 IN  \A j \in DOMAIN depths :
                       LET F == controlStack[Len(controlStack) - depths[j]]
                           T == branchTargetStack[Len(branchTargetStack) - depths[j]]
                       IN  /\ T.block \in Range(terms'[insertBlock].targets)
                           /\ F.type = "loop" =>
                                  F.endBlock \notin Range(terms'[insertBlock].targets)
                           /\ \A k \in DOMAIN T.phis :
                                  /\ Len(phis'[T.phis[k]].incoming)
                                         > Len(phis[T.phis[k]].incoming)
                                  /\ Last(phis'[T.phis[k]].incoming)
                                         = [ val  |-> coerceToCanonicalType(
                                                          args(Len(T.params))[k]),
                                             from |-> insertBlock ]
      ]_vars

\* A br to the label of a loop with a parameter: the terminator names the
\* loop body block, the parameter phi has the value from the loop's entry
\* and the argument of the br, and the loop's end phi has no incoming value.
BranchToLoopTargetsBodyWitness ==
    /\ lastOp.op.code = "br"
    /\ lastOp.by = "emitter"
    /\ Last(controlStack).type = "loop"
    /\ Len(Last(controlStack).endPHIs) = 1
    /\ phis[Last(controlStack).endPHIs[1]].incoming = << >>
    /\ Len(Last(branchTargetStack).phis) = 1
    /\ Len(phis[Last(branchTargetStack).phis[1]].incoming) = 2
    /\ terms[insertBlock].targets = << Last(controlStack).endBlock - 1 >>

-----------------------------------------------------------------------------
\* The emitter was left in state e by the step.
LeftAs(e) ==
    /\ stack' = e.stack
    /\ controlStack' = e.controlStack
    /\ branchTargetStack' = e.branchTargetStack
    /\ tryStack' = e.tryStack
    /\ catchStack' = e.catchStack
    /\ phis' = e.phis
    /\ terms' = e.terms
    /\ insertBlock' = e.insertBlock
    /\ numInsts' = e.numInsts
    /\ calls' = e.calls
    /\ assertFailed' = e.assertFailed

\* C27: `return` is a `br` to the function frame.  From any nesting depth, a
\* `return` leaves the emitter in the state in which `br d` with
\* d = |branchTargetStack| - 1, the depth of the function frame, would have
\* left it, and such a `br` in the state `return` would have: the same
\* |function results| values are popped and added to the same phis, the
\* return phis, from the same block, the same branch to the return block is
\* created, and the same truncation of the operand stack and marking of the
\* innermost frame as unreachable follow.
ReturnIsBranchToFunctionFrame ==
    [][ /\ (Emitted("return") /\ lastOp'.by = "emitter") =>
               /\ LeftAs(br(Cur, Len(branchTargetStack) - 1))
               /\ terms'[insertBlock] = [ kind |-> "br", cond |-> << >>,
                                          targets |-> << ReturnBlock >> ]
               /\ Len(stack') = Last(controlStack).outerStackSize
               /\ ~Last(controlStack').isReachable
               /\ ~assertFailed'
        /\ (Emitted("br") /\ lastOp'.by = "emitter"
                /\ lastOp'.op.index = Len(branchTargetStack) - 1) =>
               LeftAs(return_(Cur))
      ]_vars

\* A return inside two nested frames of a function with a result: the
\* return phi has got the operand from the current block, which branches to
\* the return block, and the innermost frame is unreachable.
ReturnIsBranchToFunctionFrameWitness ==
    /\ lastOp.op.code = "return"
    /\ lastOp.by = "emitter"
    /\ Len(controlStack) = 3
    /\ Len(functionType.results) = 1
    /\ phis[1].incoming = << [ val |-> Value("local", "i32", 0, << >>),
                               from |-> insertBlock ] >>
    /\ terms[insertBlock].targets = << ReturnBlock >>
    /\ ~Last(controlStack).isReachable

-----------------------------------------------------------------------------
\* The frames of the control stack that are the body of a try: a frame that
\* has become a catch clause is no longer one.
TryBodies == { i \in DOMAIN controlStack : controlStack[i].type = "try" }

\* The landing pad of the try or catch frame i: the k-th such frame of the
\* control stack has the k-th entry of the catch stack, whose exception
\* pointer is loaded in the landing pad.
LandingPadOf(i) ==
    LET k == Cardinality({ j \in 1 .. i : controlStack[j].type \in { "try", "catch" } })
    IN  catchStack[k].exceptionPointer.n

\* The landing pad of the innermost try whose body encloses the insertion
\* point, or no block.
EnclosingUnwindToBlock ==
    IF TryBodies = { } THEN NoBlock
    ELSE LandingPadOf(CHOOSE i \in TryBodies : \A j \in TryBodies : j <= i)

\* The number of calls the emitter creates for an operator.
NumCalls(op) ==
    CASE op.code \in { "call", "unreachable", "throw", "rethrow" } -> 1
      [] op.code = "call_indirect" -> 2
      [] op.code = "end" /\ Last(controlStack).type = "catch" -> 1
      [] OTHER -> 0

\* C28: every call the emitter creates (call, call_indirect and its
\* signature trap, the intrinsics of unreachable and throw, the rethrow at the
\* end of a catch chain) unwinds to the landing pad of the innermost try
\* whose body encloses it, and has no unwind destination when there is none;
\* a call in a catch clause does not unwind to the landing pad of the try
\* the clause belongs to.
CallsUnwindToEnclosingTry ==
    [][ /\ SubSeq(calls', 1, Len(calls)) = calls
        /\ (Decoded /\ lastOp'.by \in { "emitter", "forwarded" }) =>
               Len(calls') = Len(calls) + NumCalls(lastOp'.op)
        /\ \A i \in Len(calls) + 1 .. Len(calls') :
               /\ calls'[i].unwindToBlock = EnclosingUnwindToBlock
               /\ Last(controlStack).type = "catch" =>
                      calls'[i].unwindToBlock
                          # LandingPadOf(Len(controlStack))
      ]_vars

\* A call in a catch clause of a try nested in the body of another try
\* unwinds to the landing pad of the outer try.
CallsUnwindToEnclosingTryWitness ==
    /\ lastOp.op.code = "call"
    /\ lastOp.by = "emitter"
    /\ Len(controlStack) = 3
    /\ controlStack[2].type = "try"
    /\ controlStack[3].type = "catch"
    /\ Last(calls).unwindToBlock = catchStack[1].exceptionPointer.n
    /\ Last(calls).unwindToBlock # catchStack[2].exceptionPointer.n
    /\ Last(calls).unwindToBlock # NoBlock
    /\ ~assertFailed

-----------------------------------------------------------------------------
\* The element of the argument array (counted from 0) into which `throw` of
\* the exception type with parameters `params` stores the i-th declared
\* parameter (counted from 1): the stores of throw_, run on a stack whose
\* i-th operand is i.
ThrowSlot(params, i) ==
    LET numArgs == Len(params)
        e       == [ Cur EXCEPT !.stack = [ k \in 1 .. numArgs |-> k ] ]
        memory  == storeArguments(e, [ k \in 1 .. numArgs |-> 0 ], 0, numArgs).memory
    IN  (CHOOSE slot \in 1 .. numArgs : memory[slot] = i) - 1

\* C29: after `catch T` the operand stack holds, above the outer stack size
\* of the frame, one value per parameter of T, the first declared parameter
\* deepest and the last on top as `throw T` found them, each loaded with its
\* declared type from the element of the argument array into which `throw T`
\* stored that parameter.
CatchRestoresThrowOrder ==
    [][ (Emitted("catch") /\ lastOp'.by \in { "emitter", "forwarded" }) =>
            LET params == exceptionTypeInstances[lastOp'.op.index + 1]
                outer  == Last(controlStack').outerStackSize
            IN  /\ Len(stack') = outer + Len(params)
                /\ \A i \in 1 .. Len(params) :
                       stack'[outer + i]
                         = Value("exceptionArgument", asLLVMType(params[i]),
                                 ThrowSlot(params, i), << >>)
      ]_vars

-----------------------------------------------------------------------------
\* The kind and the reachability of every frame of a control stack.
FrameKinds(frames) ==
    [ i \in DOMAIN frames |->
        [ type |-> frames[i].type, isReachable |-> frames[i].isReachable ] ]

\* C30: the table-based and the funclet-based implementation of try, catch,
\* catch_all and end leave, after any sequence of operators, the same operand
\* stack (after catch T the same elements of the argument array, pushed in the
\* same order with the same value types), control frames of the same kind and
\* reachability, and a try stack and a catch stack of the same depth.
LoweringsAgree ==
    /\ funclet.stack = stack
    /\ FrameKinds(funclet.controlStack) = FrameKinds(controlStack)
    /\ Len(funclet.tryStack) = Len(tryStack)
    /\ Len(funclet.catchStack) = Len(catchStack)

-----------------------------------------------------------------------------
\* The exceptions that can reach a landing pad: a user exception of one of
\* the module's types, or an exception of the runtime, whose type instance
\* is none of the module's (-1).
Exceptions ==
    [ typeInstance : 0 .. Len(exceptionTypeInstances) - 1, isUserException : { 1 } ]
        \cup { [ typeInstance |-> -1, isUserException |-> 0 ] }

\* The value of the condition of a catch clause's test for an exception.
Matches(cond, exception) ==
    IF cond.op = "icmp eq" THEN exception.typeInstance = cond.n
    ELSE exception.isUserException # 0

\* Where the emitted code takes an exception from `basicBlock` on: through
\* the tests that fail, to the handler of the first test that holds, to the
\* rethrow, or to a block that has no terminator yet.
RECURSIVE Unwound(_, _, _)
Unwound(ts, basicBlock, exception) ==
    CASE ts[basicBlock].kind = "condbr" ->
            IF Matches(ts[basicBlock].cond[1], exception)
            THEN [ outcome |-> "handler", block |-> ts[basicBlock].targets[1] ]
            ELSE Unwound(ts, ts[basicBlock].targets[2], exception)
      [] ts[basicBlock].kind = "unreachable" ->
            [ outcome |-> "rethrow", block |-> basicBlock ]
      [] OTHER -> [ outcome |-> "unhandled", block |-> basicBlock ]

\* The test a catch clause emits, for the catch stack entry of its try.
ClauseTest(op, catchContext) ==
    IF op.code = "catch"
    THEN Value("icmp eq", "i1", op.index, << catchContext.exceptionTypeInstance >>)
    ELSE Value("icmp ne", "i1", 0,
               << Value("load isUserException", "i8", 0,
                        << catchContext.exceptionPointer >>) >>)

\* C31: the catch clauses of a try are tested in source order.  The first
\* clause's test is in the landing pad, the test of every later clause in the
\* block the test before it branches to when it fails, so that an exception
\* runs the handler of the first clause that matches it: `catch T` matches
\* the exceptions of type instance T, `catch_all` those with isUserException
\* non-zero.  The `end` of the chain fills the last unhandled block with a
\* throwException of the same type instance and argument pointer and an
\* unreachable, where the exceptions that no clause matched arrive.
CatchClausesTestedInOrder ==
    [][ LET catchContext == Last(catchStack)
            landingPad   == catchContext.exceptionPointer.n
            unhandled    == catchContext.nextHandlerBlock
        IN  /\ (Emitted("catch") \/ Emitted("catch_all")) =>
                  LET nextUnhandled == Last(catchStack').nextHandlerBlock
                  IN  /\ Last(controlStack).type = "try" => unhandled = landingPad
                      /\ terms[unhandled].kind = "none"
                      /\ terms'[unhandled].kind = "condbr"
                      /\ terms'[unhandled].cond = << ClauseTest(lastOp'.op, catchContext) >>
                      /\ terms'[unhandled].targets = << insertBlock', nextUnhandled >>
                      /\ { insertBlock', nextUnhandled } \cap DOMAIN terms = { }
                      /\ insertBlock' # nextUnhandled
                      /\ terms'[nextUnhandled].kind = "none"
                      /\ \A exception \in Exceptions :
                            LET before == Unwound(terms, landingPad, exception)
                                after  == Unwound(terms', landingPad, exception)
                            IN  IF before.outcome = "handler" THEN after = before
                                ELSE /\ before = [ outcome |-> "unhandled", block |-> unhandled ]
                                     /\ after = IF Matches(ClauseTest(lastOp'.op, catchContext),
                                                           exception)
                                                THEN [ outcome |-> "handler",
                                                       block |-> insertBlock' ]
                                                ELSE [ outcome |-> "unhandled",
                                                       block |-> nextUnhandled ]
            /\ (Emitted("end") /\ Last(controlStack).type = "catch") =>
                  /\ terms[unhandled].kind = "none"
                  /\ terms'[unhandled].kind = "unreachable"
                  /\ Len(calls') = Len(calls) + 1
                  /\ Last(calls').callee = "throwException"
                  /\ Last(calls').block = unhandled
                  /\ Last(calls').arguments[1]
                       = Value("load", "i64", 0, << catchContext.exceptionPointer >>)
                  /\ Last(calls').arguments[2]
                       = Value("ptrtoint", "i64", 0, << catchContext.exceptionPointer >>)
                  /\ \A exception \in Exceptions :
                        LET before == Unwound(terms, landingPad, exception)
                            after  == Unwound(terms', landingPad, exception)
                        IN  IF before.outcome = "handler" THEN after = before
                            ELSE after = [ outcome |-> "rethrow", block |-> unhandled ]
      ]_vars

\* A chain of a `catch T` and a `catch_all` has been ended: the test of the
\* type, then the test of the flag, then the rethrow.
CatchClausesTestedInOrderWitness ==
    /\ lastOp.op.code = "end"
    /\ lastOp.by = "emitter"
    /\ ~assertFailed
    /\ \E b \in DOMAIN terms :
          /\ terms[b].kind = "condbr"
          /\ terms[b].cond[1].op = "icmp eq"
          /\ terms[terms[b].targets[2]].kind = "condbr"
          /\ terms[terms[b].targets[2]].cond[1].op = "icmp ne"
          /\ terms[terms[terms[b].targets[2]].targets[2]].kind = "unreachable"
          /\ Last(calls).callee = "throwException"
          /\ Last(calls).block = terms[terms[b].targets[2]].targets[2]
          /\ Unwound(terms, b, [ typeInstance |-> 2, isUserException |-> 1 ]).block
               = terms[terms[b].targets[2]].targets[1]

-----------------------------------------------------------------------------
\* The catch stack entry of the catch clause at catch depth d: depth 0 is the
\* innermost control frame that is a catch clause, and the k-th control frame
\* of kind try or catch has the k-th entry of the catch stack.
CaughtAt(d) ==
    LET frame == CatchClauses[Len(CatchClauses) - d]
        k == Cardinality({ j \in 1 .. frame :
                              controlStack[j].type \in { "try", "catch" } })
    IN  catchStack[k]

\* C32: `rethrow d` calls throwException with the type instance and the
\* argument pointer of the exception caught by the catch clause at depth d,
\* counted from the innermost enclosing catch clause outwards, then ends the
\* block with unreachable and enters the unreachable state.
RethrowThrowsCaughtException ==
    [][ (Emitted("rethrow") /\ lastOp'.by = "emitter") =>
            LET caught == CaughtAt(lastOp'.op.index).exceptionPointer
            IN  /\ calls' = Append(calls, Last(calls'))
                /\ Last(calls').callee = "throwException"
                /\ Last(calls').block = insertBlock
                /\ Last(calls').arguments[1] = Value("load", "i64", 0, << caught >>)
                /\ Last(calls').arguments[2] = Value("ptrtoint", "i64", 0, << caught >>)
                /\ terms'[insertBlock].kind = "unreachable"
                /\ stack' = Take(stack, Last(controlStack).outerStackSize)
                /\ ~Last(controlStack').isReachable
                /\ ~assertFailed'
      ]_vars

-----------------------------------------------------------------------------
\* The control frames of the given kinds, the outermost first.
FramesOfKind(frames, kinds) ==
    SelectSeq(frames, LAMBDA frame : frame.type \in kinds)

\* The landing pad of a try or catch frame: try_ creates it just before the
\* end block of the frame.
LandingPadOfFrame(frame) == frame.endBlock - 1

\* Every try and catch frame has its entry on the catch stack, every frame
\* still in its try body has its entry on the try stack, in the order of the
\* frames, and the stacks hold nothing else.
StacksMatchFrames(frames, tries, catches) ==
    /\ [ k \in DOMAIN catches |-> catches[k].exceptionPointer.n ]
         = [ k \in DOMAIN FramesOfKind(frames, { "try", "catch" }) |->
               LandingPadOfFrame(FramesOfKind(frames, { "try", "catch" })[k]) ]
    /\ [ k \in DOMAIN tries |-> tries[k].unwindToBlock ]
         = [ k \in DOMAIN FramesOfKind(frames, { "try" }) |->
               LandingPadOfFrame(FramesOfKind(frames, { "try" })[k]) ]

\* C33: after every operator the catch stack has one entry per control frame
\* of kind try or catch and the try stack one per frame of kind try, each the
\* entry of its frame; `catch` and `catch_all` remove the try stack entry of
\* the innermost frame when it leaves its try body, `end` removes the
\* entries of the innermost frame, and both stacks are empty when the control
\* stack is, at the end of the emission.
TryAndCatchStacksFollowFrames ==
    [][ /\ StacksMatchFrames(controlStack', tryStack', catchStack')
        /\ Len(catchStack') = Len(FramesOfKind(controlStack', { "try", "catch" }))
        /\ Len(tryStack') = Len(FramesOfKind(controlStack', { "try" }))
        /\ (Emitted("catch") \/ Emitted("catch_all")) =>
               /\ tryStack' = IF Last(controlStack).type = "try"
                              THEN Front(tryStack) ELSE tryStack
               /\ Len(catchStack') = Len(catchStack)
               /\ Front(catchStack') = Front(catchStack)
        /\ Emitted("end") =>
               /\ tryStack' = IF Last(controlStack).type = "try"
                              THEN Front(tryStack) ELSE tryStack
               /\ catchStack' = IF Last(controlStack).type \in { "try", "catch" }
                                THEN Front(catchStack) ELSE catchStack
        /\ controlStack' = << >> => tryStack' = << >> /\ catchStack' = << >>
      ]_vars

\* The inner of two nested tries has entered a catch clause: two entries on
\* the catch stack, the outer try's entry alone on the try stack.
TryAndCatchStacksFollowFramesWitness ==
    /\ lastOp.op.code \in { "catch", "catch_all" }
    /\ Len(controlStack) = 3
    /\ controlStack[2].type = "try"
    /\ controlStack[3].type = "catch"
    /\ Len(catchStack) = 2
    /\ Len(tryStack) = 1
    /\ tryStack[1].unwindToBlock = LandingPadOfFrame(controlStack[2])
    /\ ~assertFailed

-----------------------------------------------------------------------------
(* Reachability of the control frames: the operators of Next and rethrow.  *)

NextFrames ==
    \/ OpBlock \/ OpLoop \/ OpIf \/ OpElse \/ OpEnd
    \/ OpBr \/ OpBrIf \/ OpBrTable \/ OpReturn \/ OpUnreachable
    \/ OpDrop \/ OpI32Const \/ OpI32Eqz \/ OpI8x16Splat \/ OpGetLocal \/ OpTeeLocal
    \/ OpTry \/ OpCatch \/ OpCatchAll \/ OpThrow \/ OpRethrow
    \/ OpScript
    \/ Finish

SpecFrames == Init /\ [][NextFrames]_vars

\* The operators that end with enterUnreachable.
ClearsIsReachable ==
    { "br", "br_table", "return", "unreachable", "throw", "rethrow" }

\* isReachable of every frame of the sequence.
Reachability(frames) == [ k \in DOMAIN frames |-> frames[k].isReachable ]

\* C34: every control frame other than the innermost has isReachable = true;
\* a frame is pushed only while the innermost frame is reachable, and br,
\* br_table, return, unreachable, throw and rethrow clear isReachable on the
\* innermost frame and on no other.
OnlyInnermostFrameUnreachable ==
    [][ /\ \A k \in 1 .. Len(controlStack') - 1 : controlStack'[k].isReachable
        /\ Len(controlStack') > Len(controlStack) /\ controlStack # << >> =>
               /\ Last(controlStack).isReachable
               /\ Reachability(Front(controlStack')) = Reachability(controlStack)
        /\ \A code \in ClearsIsReachable : Emitted(code) =>
               /\ Len(controlStack') = Len(controlStack)
               /\ ~Last(controlStack').isReachable
               /\ Reachability(Front(controlStack')) = Reachability(Front(controlStack))
      ]_vars

\* A branch out of a nested frame to the function's end has made the nested
\* frame unreachable and left the function's frame reachable.
OnlyInnermostFrameUnreachableWitness ==
    /\ lastOp.op.code \in { "br", "return" }
    /\ lastOp.by = "emitter"
    /\ Len(controlStack) = 2
    /\ ~controlStack[2].isReachable
    /\ controlStack[1].isReachable
    /\ ~assertFailed

-----------------------------------------------------------------------------
-----------------------------------------------------------------------------
\* The bits j .. j + 15 of the value whose bit i is bit (i + by) mod W of x.
RECURSIVE RotatedLimb(_, _, _, _, _)
RotatedLimb(x, W, by, j, k) ==
    IF k = 16 THEN 0
    ELSE BitOf(x, (j + k + by) % W) * (2 ^ k) + RotatedLimb(x, W, by, j, k + 1)

\* x rotated to the left by k bits, 0 <= k < W: bit i of the result is bit
\* i - k of x, counted modulo W.
RotatedLeft(x, W, k) ==
    [ i \in 1 .. W \div 16 |-> RotatedLimb(x, W, W - k, 16 * (i - 1), 0) ]

\* x rotated to the right by k bits: bit i of the result is bit i + k of x.
RotatedRight(x, W, k) ==
    [ i \in 1 .. W \div 16 |-> RotatedLimb(x, W, k, 16 * (i - 1), 0) ]

\* C36: rotations.  For every x and n of i32 and i64 the value of the
\* expression emitted for rotl, (x shl (n AND W-1)) OR (x lshr ((W - n) AND
\* W-1)), is x rotated to the left by n mod W bits, and the value of the
\* mirror image emitted for rotr is x rotated to the right by n mod W bits;
\* both shifts have an amount LLVM defines them for, also when n is 0 or a
\* multiple of W, where the value is x.
RotateIsTrueRotation ==
    run.op \in { "rotl", "rotr" } =>
        LET x       == run.operands[1]
            n       == run.operands[2]
            W       == IF run.type = "i64" THEN 64 ELSE 32
            k       == n[1] % W
            outcome == run.outcome
        IN  /\ outcome.trap = "none"
            /\ outcome.inst = "or"
            /\ outcome.operands[1].inst = "shl"
            /\ outcome.operands[2].inst = "lshr"
            /\ outcome.operands[1].operands[1] = x
            /\ outcome.operands[2].operands[1] = x
            /\ outcome.defined
            /\ outcome.result = IF run.op = "rotl" THEN RotatedLeft(x, W, k)
                                ELSE RotatedRight(x, W, k)
            /\ k = 0 => outcome.result = x

\* i32.rotl by 32 and i64.rotr by 64 have been run on a value that is not
\* its own rotation by one bit, and i32.rotl by 33 has moved the sign bit
\* into the lowest bit.
RotateIsTrueRotationWitness ==
    \/ /\ run.op = "rotl"
       /\ run.type = "i32"
       /\ run.operands = << << 1, Limb \div 2 >>, << 32, 0 >> >>
       /\ run.outcome.result = << 1, Limb \div 2 >>
    \/ /\ run.op = "rotr"
       /\ run.type = "i64"
       /\ run.operands = << << 0, 0, 0, Limb \div 2 >>, << 64, 0, 0, 0 >> >>
       /\ run.outcome.result = << 0, 0, 0, Limb \div 2 >>

-----------------------------------------------------------------------------
\* C37: SExp::parse comes back for every input: no call of parseNode returns
\* a node without having consumed a character, so that parseNodeSequence
\* does not link nodes for ever, also for a token that starts like a number
\* and holds no digit.
ParseAlwaysTerminates ==
    /\ sexp.stage # "given" => sexp.tree.thrown # NeverReturns
    /\ sexp.stage = "reparsed" => sexp.reparsed.thrown # NeverReturns

-----------------------------------------------------------------------------
(* Integer literals, parsed.                                               *)
(* A literal is a sign, decimal digits or 0x and hexits; it is parsed as   *)
(* the only child of a subtree, so that the input goes on after it.        *)

IntegerSigns == { << >>, << "+" >>, << "-" >> }

DecimalLiterals ==
    { << "0" >>, << "7" >>, << "1", "2" >>, << "1", "0", "0" >>,
      << "0", "0" >>, << "0", "7" >>, << "0", "1", "0" >>, << "0", "8" >>,
      << "0", "0", "9" >>, << "0", "1", "2", "3" >>,
      << "6", "5", "5", "3", "6" >>,
      << "4", "2", "9", "4", "9", "6", "7", "2", "9", "6" >> }

HexadecimalLiterals ==
    { << "0", "x" >> \o hexits :
        hexits \in { << "0" >>, << "a" >>, << "F" >>, << "1", "0" >>, << "0", "0", "f", "f" >>,
                     << "1", "0", "0", "0", "0" >>,
                     << "D", "e", "a", "d", "B", "e", "e", "f", "0" >> } }

IntegerLiteralStrings ==
    { << "(" >> \o sign \o digits \o << ")" >> :
        sign \in IntegerSigns, digits \in DecimalLiterals \cup HexadecimalLiterals }

InitIntegerLiteral == InitSExp(IntegerLiteralStrings)

NextIntegerLiteral == ParseString

SpecIntegerLiteral == InitIntegerLiteral /\ [][NextIntegerLiteral]_vars

\* The value of the digits of text from position k on, in the given base.
RECURSIVE ValueOfDigits(_, _, _, _)
ValueOfDigits(text, k, base, value) ==
    IF k > Len(text) THEN value
    ELSE ValueOfDigits(text, k + 1, base, MulAdd(value, base, parseHexit(text[k])).value)

\* The sign, the base and the digits of the literal in ( literal ).
LiteralOf(string) ==
    LET text     == SubSeq(string, 2, Len(string) - 1)
        signed   == text[1] \in { "+", "-" }
        unsigned == IF signed THEN Tail(text) ELSE text
        hex      == Len(unsigned) > 2 /\ unsigned[2] = "x"
    IN  [ negative |-> text[1] = "-",
          base     |-> IF hex THEN 16 ELSE 10,
          digits   |-> IF hex THEN Tail(Tail(unsigned)) ELSE unsigned ]

\* C38: an optional sign and decimal digits, leading zeros included, parse
\* to an integer node with the base-10 value of the digits, and 0x and hex
\* digits to one with their base-16 value; the node is a SignedInt with the
\* negated value for a - sign and an UnsignedInt otherwise.
IntegerLiteralHasItsValue ==
    sexp.stage = "parsed" =>
        LET literal == LiteralOf(sexp.string)
            value   == ValueOfDigits(literal.digits, 1, literal.base, U64(0))
        IN  /\ sexp.tree.returned
            /\ sexp.tree.nodes =
                   << [ Node("Tree") EXCEPT !.children =
                          << [ Node(IF literal.negative THEN "SignedInt"
                                    ELSE "UnsignedInt")
                                 EXCEPT !.i64 = IF literal.negative
                                                THEN Negated(value) ELSE value ] >> ] >>

-----------------------------------------------------------------------------
(* Malformed tokens, parsed.                                               *)
(* The token stands in a subtree, after no or one sibling and before no or *)
(* one sibling, and a symbol follows the subtree.                          *)

MalformedStrings ==
    { << "\"", "x", "\\", "q", "\"" >>,
      << "\"", "\\", "4", "\"" >>,
      << "\"", "x", "\n", "y", "\"" >>,
      << "\"", "x", "\n", "y" >> }

MalformedNaNs ==
    { << "n", "a", "n", "(", "5", ")" >>,
      << "n", "a", "n", "(", "0", "x", ")" >>,
      << "n", "a", "n", "(", "0", "x", "0", ")" >>,
      << "-", "n", "a", "n", "(", "0", "x", "g", ")" >>,
      << "+", "n", "a", "n", "(", "(", ")", ")" >> }

MalformedHexNumbers ==
    { << "0", "x", "1", "p" >>,
      << "0", "x", "1", "p", "5", "0", "0", "0" >>,
      << "0", "x", "2", ".", "8", "p", "1" >>,
      << "0", "x", "g" >>,
      << "-", "0", "X", "." >> }

MalformedTokens == MalformedStrings \cup MalformedNaNs \cup MalformedHexNumbers

SiblingsBefore == { << >>, << "a", " " >> }

SiblingsAfter == { << >>, << " ", "b" >>, << " ", "(", "b", ")" >> }

\* ( before token after ) c
Malformed(before, token, after) ==
    << "(" >> \o before \o token \o after \o << ")", " ", "c", " " >>

InitRecovery ==
    InitSExp({ Malformed(before, token, after) :
                 before \in SiblingsBefore, token \in MalformedTokens,
                 after \in SiblingsAfter })

NextRecovery == ParseString

SpecRecovery == InitRecovery /\ [][NextRecovery]_vars

\* The nodes of the siblings written before and after the token.
NodesOf(siblings) ==
    IF siblings = << >> THEN << >>
    ELSE IF siblings = << "a", " " >> THEN << SymbolNode(<< "a" >>, SymbolStrings) >>
    ELSE IF siblings = << " ", "b" >> THEN << SymbolNode(<< "b" >>, SymbolStrings) >>
    ELSE << [ Node("Tree") EXCEPT !.children = << SymbolNode(<< "b" >>, SymbolStrings) >> ] >>

\* The nodes with the message of every error node blanked.
WithoutMessages(nodes) ==
    [ k \in DOMAIN nodes |->
        IF nodes[k].type = "Error" THEN createError("") ELSE nodes[k] ]

\* C39: a malformed token (a string with an invalid escape, a newline or no
\* closing quote; a NaN with a bad payload; a bad hexadecimal number) yields
\* one error node in its place, after the nodes of the siblings before it;
\* the parse goes on after the token or at the ) that closes the enclosing
\* subtree, so that the siblings after the token are parsed as its siblings
\* or skipped, the subtree ends at its own ), and the symbol after the
\* subtree is parsed as the sibling of the subtree.
MalformedTokenIsSkipped ==
    sexp.stage = "parsed" =>
        \E before \in SiblingsBefore, token \in MalformedTokens, after \in SiblingsAfter :
            /\ sexp.string = Malformed(before, token, after)
            /\ sexp.tree.returned
            /\ Len(sexp.tree.nodes) = 2
            /\ sexp.tree.nodes[2] = SymbolNode(<< "c" >>, SymbolStrings)
            /\ sexp.tree.nodes[1].type = "Tree"
            /\ WithoutMessages(sexp.tree.nodes[1].children)
                 \in { NodesOf(before) \o << createError("") >>,
                       NodesOf(before) \o << createError("") >> \o NodesOf(after) }

-----------------------------------------------------------------------------
(* Comments, parsed.                                                       *)
(* The comment stands in a subtree between no or one sibling on each side, *)
(* next to them or separated by a space, and a symbol follows the subtree. *)

BlockComments ==
    { << "(", ";", " ", "x", " ", ";", ")" >>,
      << "(", ";", ";", ")" >>,
      << "(", ";", "(", ";", ";", ")", ";", ")" >>,
      << "(", ";", " ", "x", "(", ";", " ", "y", " ", ";", ")", " ", "z", ";", ")" >>,
      << "(", ";", "(", ";", "x", ";", ")", "(", ";", "y", ";", ")", ";", ")" >>,
      << "(", ";", "(", ";", "(", ";", " ", "x", ";", ")", ";", ")", " ", ";", ")" >>,
      << "(", ";", " ", ";", ";", " ", "x", ";", ")" >> }

\* Line comments, with the newline that ends the line.
LineComments ==
    { << ";", ";", " ", "x", "\n" >>,
      << ";", ";", "\n" >>,
      << ";", ";", ";", "x", "\n" >>,
      << ";", ";", " ", "(", " ", "\"", ";", ")", "\n" >> }

CommentSiblingsBefore == { << >>, << "a" >>, << "a", " " >> }

CommentSiblingsAfter == { << >>, << "b" >>, << " ", "b" >>, << "(", "b", ")" >> }

\* ( before comment after ) c
Commented(before, comment, after) ==
    << "(" >> \o before \o comment \o after \o << ")", " ", "c", " " >>

\* The comments written after `before`: a line comment right after the
\* opening parenthesis would read as the start of a block comment.
CommentsAfter(before) ==
    IF before = << >> THEN BlockComments ELSE BlockComments \cup LineComments

InitComment ==
    InitSExp(UNION { { Commented(before, comment, after) :
                         comment \in CommentsAfter(before),
                         after \in CommentSiblingsAfter } :
                     before \in CommentSiblingsBefore })

NextComment == ParseString

SpecComment == InitComment /\ [][NextComment]_vars

\* The nodes of the siblings written next to a comment.
SiblingNodes(siblings) ==
    IF siblings = << >> THEN << >>
    ELSE IF siblings \in { << "a" >>, << "a", " " >> }
    THEN << SymbolNode(<< "a" >>, SymbolStrings) >>
    ELSE IF siblings \in { << "b" >>, << " ", "b" >> }
    THEN << SymbolNode(<< "b" >>, SymbolStrings) >>
    ELSE << [ Node("Tree") EXCEPT !.children = << SymbolNode(<< "b" >>, SymbolStrings) >> ] >>

=============================================================================
